---- MODULE Spec2Model ----
(***************************************************************************)
(* A model of the retrieval-augmented generation core of forgeai:          *)
(*   - the chunker           backend/app/core/brain.py                     *)
(*   - the knowledge store   backend/app/core/kb.py                        *)
(*   - the generation client backend/app/services/ai_service.py            *)
(*   - ingestion, extraction and the answerer of brain.py, with the         *)
(*     endpoint of backend/app/api/v1/rag.py                               *)
(*   - the WebSocket chat handler backend/app/api/v1/chat.py               *)
(* Each component has its own variables and its own specification; a       *)
(* specification leaves the variables of the other components untouched.   *)
(***************************************************************************)
EXTENDS Integers, Sequences, FiniteSets, TLC

VARIABLES
    \* ---- chunker: one call of split_text_to_chunks
    text,          \* the text argument (after truncation once the call entered)
    chunk_size,    \* the chunk_size argument
    overlap,       \* the overlap argument
    start,         \* the local start
    chunks,        \* the local chunks list
    result,        \* the returned list once the call returned
    pcSplit,       \* "call", "loop", "done"
    \* ---- knowledge store: the files of kb_data and the calls in progress
    textsFile,     \* kb_data/texts.json
    vectorsFile,   \* kb_data/vectors.npy
    metaFile,      \* kb_data/meta.json
    kpc,           \* per process: where its call of a kb.py function stands
    kop,           \* per process: the call and its arguments
    kloc,          \* per process: the local list (existing, then texts_only)
    kfile,         \* per process: the file clear_kb's loop is at
    kres,          \* per process: how its last call ended
    kout,          \* per process: what its last query_kb returned
    calls,         \* the add_texts_to_index calls that ended while onlyAdds, in
                   \* the order they ended: their argument and how they ended
    onlyAdds,      \* since the store was last empty with no call running, only
                   \* add_texts_to_index and query_kb were called
    \* ---- generation client: one call of ask_brain or stream_chat
    googleAvailable,   \* GOOGLE_AI_AVAILABLE
    googleKey,         \* settings.GOOGLE_AI_API_KEY is set
    googleModel,       \* GOOGLE_AI_MODEL is not None
    callKind,          \* "ask" (ask_brain) or "stream" (stream_chat)
    provider,          \* the provider argument
    prompt,            \* ask_brain's prompt
    messages,          \* stream_chat's messages
    gpc,               \* where the call stands
    gres,              \* how the call ended: "none", "ok" or the exception raised
    gtext,             \* the text ask_brain returned
    primaryReqs,       \* what was sent to Google AI, in order
    fallbackReqs,      \* what was sent to Ollama, in order
    primaryReply,      \* how the Google AI call ended
    fallbackReply,     \* how the Ollama call ended
    chunk_queue,       \* _stream_google_ai's chunk_queue
    exception_holder,  \* _stream_google_ai's exception_holder[0]
    ppc,               \* where the thread running _stream_sync stands
    futureDone,        \* future.done(), as the event loop sees it
    produced,          \* the non-empty fragments Google AI's stream gave so far
    nfrag,             \* the fragments Google AI's stream gave so far, empty ones too
    delivered,         \* the fragments stream_chat yielded to its consumer
    primaryEnd,        \* how _stream_google_ai ended: "none", "returned", "raised"
    \* ---- ingestion: one call of index_pdf_bytes_to_kb
    ipc,           \* "idle", "adding" (inside add_texts_to_index), "chunking"
                   \* (inside split_text_to_chunks), "done"
    idoc,          \* the pages of the document
    inew,          \* the local new_chunks
    ires,          \* how the call ended: "none", "ok" or the exception raised
    icount,        \* the count the call returned
    iprior,        \* the texts the store held when the call was made
    \* ---- answerer: one request to query_rag
    apc,           \* "idle", "asking" (inside brain.ask_brain), "formatted"
                   \* (ask_with_context returned), "done"
    aresults,      \* what query_kb returned to ask_with_context
    aprompts,      \* the prompts given to brain.ask_brain, in order
    areply,        \* how the Ollama call of brain.ask_brain ended
    aformatted,    \* the string ask_with_context returned
    aanswer,       \* the answer of the endpoint's response
    asources,      \* the sources of the endpoint's response
    ares,          \* how the request ended: "none", "ok" or the exception raised
    \* ---- extractor: one call of extract_text_from_pdf_bytes
    epc,           \* "idle", "done"
    ebytes,        \* the pdf_bytes argument, as what PdfReader makes of it
    eresult,       \* the returned string
    eres,          \* how the call ended: "none", "returned" or "raised"
    \* ---- WebSocket chat handler: one regular-chat turn of websocket_chat
    wpc,           \* "streaming" (in the async for of line 209), "done"
    wstream,       \* what stream_chat does in this turn: its fragments, its end
    wpos,          \* the fragments pulled from it so far
    response_text, \* the local response_text, as the list of its pieces
    wevents,       \* the events sent to the client, in order
    wstored        \* the assistant messages committed to the database

splitVars == <<text, chunk_size, overlap, start, chunks, result, pcSplit>>

kbVars == <<textsFile, vectorsFile, metaFile, kpc, kop, kloc, kfile, kres, kout,
            calls, onlyAdds>>

genVars == <<googleAvailable, googleKey, googleModel, callKind, provider, prompt,
             messages, gpc, gres, gtext, primaryReqs, fallbackReqs, primaryReply,
             fallbackReply, chunk_queue, exception_holder, ppc, futureDone,
             produced, nfrag, delivered, primaryEnd>>

ingVars == <<ipc, idoc, inew, ires, icount, iprior>>

ansVars == <<apc, aresults, aprompts, areply, aformatted, aanswer, asources, ares>>

extVars == <<epc, ebytes, eresult, eres>>

chatVars == <<wpc, wstream, wpos, response_text, wevents, wstored>>

notKB == <<splitVars, genVars, ingVars, ansVars, extVars, chatVars>>

notSplit == <<kbVars, genVars, ingVars, ansVars, extVars, chatVars>>

notGen == <<splitVars, kbVars, ingVars, ansVars, extVars, chatVars>>

notIng == <<splitVars, genVars, ansVars, extVars, chatVars>>

notAns == <<splitVars, kbVars, genVars, ingVars, extVars, chatVars>>

notExt == <<splitVars, kbVars, genVars, ingVars, ansVars, chatVars>>

notChat == <<splitVars, kbVars, genVars, ingVars, ansVars, extVars>>

vars == <<splitVars, kbVars, genVars, ingVars, ansVars, extVars, chatVars>>

(***************************************************************************)
(* Bounds of the model.                                                    *)
(***************************************************************************)
MaxTextLen == 5      \* longest text given to the chunker
MaxTextSize == 4     \* stands for MAX_TEXT_SIZE (10 MiB in brain.py:101), scaled
MaxChunkSize == 5    \* largest chunk_size tried: up to the longest text
MaxOverlap == 3      \* largest overlap tried
MaxChunks == 6       \* the loop is followed until chunks holds this many
MaxBack == 3         \* the loop is followed while start >= -MaxBack
MaxAdd == 2          \* most chunks given to one add_texts_to_index call
MaxAddConc == 1      \* the same, for calls that run beside another call
MaxCalls == 2        \* add_texts_to_index calls followed between two clears
MaxStore == 4        \* no add_texts_to_index call is started that could pass this
MaxTopK == 2         \* largest top_k asked of query_kb
MaxRecords == 3      \* longest list of records given to the ranking of query_kb
MaxPages == 3        \* most pages of a document given to index_pdf_bytes_to_kb
MaxMsgs == 2         \* longest message history given to stream_chat
MaxFrags == 2        \* most fragments one backend stream gives
MaxDocPages == 4     \* most pages of a document given to extract_text_from_pdf_bytes

\* brain.py line 137, MAX_PAGES = 100, and line 154, MAX_TEXT_SIZE = 5 MiB, of
\* extract_text_from_pdf_bytes, scaled to the documents of the model
MAX_PAGES == 3

MAX_TEXT_SIZE == 4

(***************************************************************************)
(* Python helpers.                                                         *)
(***************************************************************************)
Chars == {"a", " "}

Min(a, b) == IF a <= b THEN a ELSE b

Max(a, b) == IF a >= b THEN a ELSE b

Range(f) == {f[i] : i \in DOMAIN f}

SeqsUpTo(S, n) == UNION {[1..k -> S] : k \in 0..n}

\* s[a:b] of Python, negative indices counted from the end, both clamped
PyIndex(i, L) == IF i < 0 THEN Max(i + L, 0) ELSE Min(i, L)

\* s[a:], the end of the slice left out
PySliceToEnd(s, a, b) ==
    LET lo == PyIndex(a, Len(s))
    IN  IF lo >= Len(s) THEN <<>> ELSE SubSeq(s, lo + 1, Len(s))

PySlice(s, a, b) ==
    LET lo == PyIndex(a, Len(s))
        hi == PyIndex(b, Len(s))
    IN  IF lo >= hi THEN <<>> ELSE SubSeq(s, lo + 1, hi)

\* str.strip(): leading and trailing whitespace removed
RECURSIVE LStrip(_)
LStrip(s) == IF s # <<>> /\ Head(s) = " " THEN LStrip(Tail(s)) ELSE s

RECURSIVE RStrip(_)
RStrip(s) ==
    IF s # <<>> /\ s[Len(s)] = " " THEN RStrip(SubSeq(s, 1, Len(s) - 1)) ELSE s

Strip(s) == LStrip(RStrip(s))

(***************************************************************************)
(* Chunker: split_text_to_chunks(text, chunk_size, overlap).               *)
(***************************************************************************)
SplitInit ==
    /\ text \in SeqsUpTo(Chars, MaxTextLen)
    /\ chunk_size \in 1..MaxChunkSize
    /\ overlap \in 0..MaxOverlap
    /\ start = 0
    /\ chunks = <<>>
    /\ result = <<>>
    /\ pcSplit = "call"

\* lines 103-105 left out: the text is never cut
TruncatedNever(t) == t

\* the text the loop works on: cut at MAX_TEXT_SIZE
Truncated(t) == IF Len(t) > MaxTextSize THEN SubSeq(t, 1, MaxTextSize) ELSE t

\* lines 97-112: the early returns, the truncation and the loop's set-up
SplitEnter ==
    /\ pcSplit = "call"
    /\ UNCHANGED notSplit
    /\ IF Len(text) = 0
       THEN /\ result' = <<>>
            /\ pcSplit' = "done"
            /\ UNCHANGED <<text, start, chunks>>
       ELSE LET t == Truncated(text)
            IN  IF Len(t) <= chunk_size
                THEN /\ text' = t
                     /\ result' = <<t>>
                     /\ pcSplit' = "done"
                     /\ UNCHANGED <<start, chunks>>
                ELSE /\ text' = t
                     /\ start' = 0
                     /\ chunks' = <<>>
                     /\ pcSplit' = "loop"
                     /\ UNCHANGED result
    /\ UNCHANGED <<chunk_size, overlap>>

\* the start the loop body leaves behind
NextStart(st, L) == Min(st + chunk_size, L) - overlap

\* lines 114-121: one pass of the while loop; lines 123-124 when it leaves
SplitIter ==
    /\ pcSplit = "loop"
    /\ UNCHANGED notSplit
    /\ start < Len(text)
    /\ Len(chunks) < MaxChunks
    /\ start >= -MaxBack
    /\ LET L == Len(text)
           end == Min(start + chunk_size, L)
           chunk == Strip(PySlice(text, start, end))
           emitted == IF chunk # <<>> THEN Append(chunks, chunk) ELSE chunks
           nxt == NextStart(start, L)
       IN  /\ chunks' = emitted
           /\ start' = nxt
           /\ IF nxt >= L
              THEN /\ pcSplit' = "done"
                   /\ result' = emitted
              ELSE /\ pcSplit' = "loop"
                   /\ UNCHANGED result
    /\ UNCHANGED <<text, chunk_size, overlap>>

SplitNext == SplitEnter \/ SplitIter

(***************************************************************************)
(* Knowledge store: kb.py.  The store is three files of kb_data; nothing   *)
(* in kb.py takes a lock, so a call is a sequence of file operations and   *)
(* the calls of different processes may interleave between them.           *)
(***************************************************************************)
Procs == {1, 2}

Texts == {"alpha", "beta", "a"}

Sources == {"s1", "s2"}

\* what TfidfVectorizer's tokenizer keeps of a text: words of two or more
\* characters (token_pattern (?u)\b\w\w+\b), so "a" leaves nothing
Terms(t) == IF t = "a" THEN {} ELSE {t}

\* an element of the JSON list: a bare string, or a {"text", "source"} dict
StrEl(t) == [kind |-> "str", text |-> t, source |-> "-"]

DictEl(t, s) == [kind |-> "dict", text |-> t, source |-> s]

\* the chunks given to add_texts_to_index
ChunkDicts == {DictEl("alpha", "s1"), DictEl("beta", "s2"), DictEl("a", "s1")}

TextStrs == {StrEl(t) : t \in Texts}

\* a file of kb_data: absent, opened for writing and not yet written
\* ("partial": truncated or garbled), or holding data; w: the processes
\* holding it open for writing
Absent == [st |-> "absent", data |-> <<>>, w |-> {}]

Exists(f) == f.st # "absent"

\* open(path, "w") / np.save's open(path, "wb"): the file is truncated
Truncate(f, p) == [st |-> "partial", data |-> <<>>, w |-> f.w \cup {p}]

\* the file once p has written d and closed it.  p writes from offset 0 of
\* the file it opened: nothing changes under the path when the path was
\* unlinked since; and when another writer wrote more bytes since p truncated
\* the file, their tail stays behind p's data (clobbered: not parseable)
Written(f, p, d, clobbered) ==
    IF p \notin f.w
    THEN f
    ELSE IF clobbered
    THEN [st |-> "partial", data |-> <<>>, w |-> f.w \ {p}]
    ELSE [st |-> "full", data |-> d, w |-> f.w \ {p}]

\* the length of a text
TextLen(t) == IF t = "alpha" THEN 5 ELSE IF t = "beta" THEN 4 ELSE 1

\* bytes json.dump(texts, indent=2) writes: "[]", or a line per text
RECURSIVE TextsBytes(_)
TextsBytes(xs) ==
    IF xs = <<>> THEN 2 ELSE TextLen(Head(xs).text) + 6 + TextsBytes(Tail(xs))

\* bytes np.save writes: the header, then rows x columns floats
VectorsBytes(m) == 128 + 8 * Len(m) * Cardinality(UNION Range(m))

\* bytes json.dump(meta, indent=2) writes: "{}", or the n_texts line in braces
MetaBytes(m) == IF m = <<>> THEN 2 ELSE 18

\* [t["text"] for t in xs]: TypeError on an element that is a bare string
AllDicts(xs) == \A i \in 1..Len(xs) : xs[i].kind = "dict"

TextsOnly(xs) == [i \in 1..Len(xs) |-> StrEl(xs[i].text)]

\* TfidfVectorizer.fit_transform(texts).toarray(): one row per text; it
\* raises ValueError when no text leaves a term (empty vocabulary)
Vocabulary(xs) == UNION {Terms(xs[i].text) : i \in 1..Len(xs)}

Vectorize(xs) == [i \in 1..Len(xs) |-> Terms(xs[i].text)]

\* cosine_similarity(q_vec, vectors)[0][i], as the number of terms the query
\* and text i share (it is positive exactly when they share one)
Sim(q, x) == Cardinality(Terms(q) \cap Terms(x.text))

\* np.argsort(sims)[::-1]: ascending by (score, index), then reversed
RECURSIVE ArgsortDesc(_, _)
ArgsortDesc(sims, left) ==
    IF left = {}
    THEN <<>>
    ELSE LET i == CHOOSE j \in left :
                    \A k \in left : sims[k] < sims[j] \/ (sims[k] = sims[j] /\ k <= j)
         IN  <<i>> \o ArgsortDesc(sims, left \ {i})

\* lines 102-112 of query_kb on the loaded list, all of it dicts
QueryResults(xs, q, k) ==
    LET sims == [i \in 1..Len(xs) |-> Sim(q, xs[i])]
        idxs == ArgsortDesc(sims, 1..Len(xs))
        n == Min(k, Len(xs))
    IN  [j \in 1..n |-> [score |-> sims[idxs[j]], chunk |-> xs[idxs[j]]]]

NoOp == [op |-> "none", new |-> <<>>, query |-> "-", top_k |-> 0]

KBInit ==
    /\ textsFile = Absent
    /\ vectorsFile = Absent
    /\ metaFile = Absent
    /\ kpc = [p \in Procs |-> "idle"]
    /\ kop = [p \in Procs |-> NoOp]
    /\ kloc = [p \in Procs |-> <<>>]
    /\ kfile = [p \in Procs |-> 0]
    /\ kres = [p \in Procs |-> "none"]
    /\ kout = [p \in Procs |-> <<>>]
    /\ calls = <<>>
    /\ onlyAdds = TRUE

RECURSIVE Flatten(_)
Flatten(ss) == IF ss = <<>> THEN <<>> ELSE Head(ss) \o Flatten(Tail(ss))

NumTexts == IF textsFile.st = "full" THEN Len(textsFile.data) ELSE 0

NumRows == IF vectorsFile.st = "full" THEN Len(vectorsFile.data) ELSE 0

\* the call of p ends: it returned (r = "ok") or raised r
Return(p, r) ==
    /\ kpc' = [kpc EXCEPT ![p] = "idle"]
    /\ kres' = [kres EXCEPT ![p] = r]
    /\ kloc' = [kloc EXCEPT ![p] = <<>>]
    /\ kop' = [kop EXCEPT ![p] = [NoOp EXCEPT !.op = kop[p].op]]

\* calls, once the call of p has ended
Recorded(p, r) ==
    IF kop[p].op = "add" /\ onlyAdds
    THEN Append(calls, [new |-> kop[p].new, res |-> r])
    ELSE calls

\* the call of p goes on at pc
Goto(p, pc) ==
    /\ kpc' = [kpc EXCEPT ![p] = pc]
    /\ UNCHANGED kop

\* ---- add_texts_to_index(new_text_chunks), lines 82-91
AddCall(p, new) ==
    /\ kpc[p] = "idle"
    /\ Len(calls) < MaxCalls
    /\ NumTexts + Len(new) <= MaxStore
    /\ kop' = [kop EXCEPT ![p] = [NoOp EXCEPT !.op = "add", !.new = new]]
    /\ kres' = [kres EXCEPT ![p] = "none"]
    /\ kout' = [kout EXCEPT ![p] = <<>>]
    /\ kpc' = [kpc EXCEPT ![p] = "load_exists"]
    /\ UNCHANGED <<textsFile, vectorsFile, metaFile, kloc, kfile, calls, onlyAdds>>
    /\ UNCHANGED notKB

\* ---- query_kb(query, top_k), lines 94-112
QueryCall(p, q, k) ==
    /\ kpc[p] = "idle"
    /\ kop' = [kop EXCEPT ![p] = [NoOp EXCEPT !.op = "query", !.query = q, !.top_k = k]]
    /\ kres' = [kres EXCEPT ![p] = "none"]
    /\ kout' = [kout EXCEPT ![p] = <<>>]
    /\ kpc' = [kpc EXCEPT ![p] = "load_exists"]
    /\ UNCHANGED <<textsFile, vectorsFile, metaFile, kloc, kfile, calls, onlyAdds>>
    /\ UNCHANGED notKB

\* a test that never finds the loaded list empty
EmptyStoreNever(loaded) == FALSE

\* query_kb, line 99: `if not texts`
EmptyStore(loaded) == loaded = <<>>

\* what follows _load_texts() in the caller, up to its next file operation:
\* lines 88-90 of add_texts_to_index, lines 99-112 of query_kb
AfterLoad(p, loaded) ==
    IF kop[p].op = "add"
    THEN LET existing == loaded \o kop[p].new
         IN  IF AllDicts(existing)
             THEN /\ kloc' = [kloc EXCEPT ![p] = TextsOnly(existing)]
                  /\ Goto(p, "save_texts_open")
                  /\ UNCHANGED <<kres, kout, calls>>
             ELSE /\ Return(p, "TypeError")
                  /\ calls' = Recorded(p, "TypeError")
                  /\ UNCHANGED kout
    ELSE /\ UNCHANGED calls
         /\ IF EmptyStore(loaded)
            THEN /\ Return(p, "ok")
                 /\ kout' = [kout EXCEPT ![p] = <<>>]
            ELSE IF ~AllDicts(loaded)
            THEN /\ Return(p, "TypeError")
                 /\ UNCHANGED kout
            ELSE IF Vocabulary(loaded) = {}
            THEN /\ Return(p, "ValueError")
                 /\ UNCHANGED kout
            ELSE /\ Return(p, "ok")
                 /\ kout' = [kout EXCEPT ![p] =
                                QueryResults(loaded, kop[p].query, kop[p].top_k)]

\* _load_texts, line 23: KB_TEXTS.exists()
LoadTextsExists(p) ==
    /\ kpc[p] = "load_exists"
    /\ IF Exists(textsFile)
       THEN /\ Goto(p, "load_read")
            /\ UNCHANGED <<kres, kloc, kout, calls>>
       ELSE AfterLoad(p, <<>>)
    /\ UNCHANGED <<textsFile, vectorsFile, metaFile, kfile, onlyAdds>>
    /\ UNCHANGED notKB

\* what open and json.load raise on a file that is not whole
LoadError == IF textsFile.st = "absent" THEN "FileNotFoundError" ELSE "JSONDecodeError"

\* _load_texts, lines 24-25: open and json.load
LoadTextsRead(p) ==
    /\ kpc[p] = "load_read"
    /\ IF textsFile.st = "full"
       THEN AfterLoad(p, textsFile.data)
       ELSE /\ Return(p, LoadError)
            /\ calls' = Recorded(p, LoadError)
            /\ UNCHANGED kout
    /\ UNCHANGED <<textsFile, vectorsFile, metaFile, kfile, onlyAdds>>
    /\ UNCHANGED notKB

\* ---- build_index_from_texts(text_chunks), lines 61-79, called from outside
BuildCall(p, ts) ==
    /\ kpc[p] = "idle"
    /\ kop' = [kop EXCEPT ![p] = [NoOp EXCEPT !.op = "build", !.new = ts]]
    /\ kres' = [kres EXCEPT ![p] = "none"]
    /\ kout' = [kout EXCEPT ![p] = <<>>]
    /\ kloc' = [kloc EXCEPT ![p] = ts]
    /\ kpc' = [kpc EXCEPT ![p] = "save_texts_open"]
    /\ onlyAdds' = FALSE
    /\ calls' = <<>>
    /\ UNCHANGED <<textsFile, vectorsFile, metaFile, kfile>>
    /\ UNCHANGED notKB

\* the call of build_index_from_texts ends, and with it add_texts_to_index
BuildReturn(p, r) ==
    /\ Return(p, r)
    /\ calls' = Recorded(p, r)

\* _save_texts, line 31: open(KB_TEXTS, "w")
SaveTextsOpen(p) ==
    /\ kpc[p] = "save_texts_open"
    /\ textsFile' = Truncate(textsFile, p)
    /\ Goto(p, "save_texts_write")
    /\ UNCHANGED <<vectorsFile, metaFile, kloc, kfile, kres, kout, calls, onlyAdds>>
    /\ UNCHANGED notKB

\* _save_texts, line 32: json.dump and close; then lines 68 and 74-75
SaveTextsWrite(p) ==
    /\ kpc[p] = "save_texts_write"
    /\ textsFile' = Written(textsFile, p, kloc[p],
                            /\ textsFile.st = "full"
                            /\ TextsBytes(textsFile.data) > TextsBytes(kloc[p]))
    /\ IF Len(kloc[p]) # 0 /\ Vocabulary(kloc[p]) = {}
       THEN BuildReturn(p, "ValueError")
       ELSE /\ Goto(p, "save_vectors_open")
            /\ UNCHANGED <<kres, kloc, calls>>
    /\ UNCHANGED <<vectorsFile, metaFile, kfile, kout, onlyAdds>>
    /\ UNCHANGED notKB

\* _save_vectors, line 58: np.save opens KB_VECTORS
SaveVectorsOpen(p) ==
    /\ kpc[p] = "save_vectors_open"
    /\ vectorsFile' = Truncate(vectorsFile, p)
    /\ Goto(p, "save_vectors_write")
    /\ UNCHANGED <<textsFile, metaFile, kloc, kfile, kres, kout, calls, onlyAdds>>
    /\ UNCHANGED notKB

\* a matrix with rows only for the texts the vectorizer finds terms in
IndexVectorsSkipEmpty(ts) ==
    Vectorize(SelectSeq(ts, LAMBDA x : Terms(x.text) # {}))

\* the matrix build_index_from_texts saves: np.zeros((0, 0)) at line 69,
\* fit_transform(text_chunks).toarray() at lines 74-76
IndexVectors(ts) == IF Len(ts) = 0 THEN <<>> ELSE Vectorize(ts)

\* _save_vectors, line 58: np.save writes the matrix and closes
SaveVectorsWrite(p) ==
    /\ kpc[p] = "save_vectors_write"
    /\ vectorsFile' = Written(vectorsFile, p, IndexVectors(kloc[p]),
                              /\ vectorsFile.st = "full"
                              /\ VectorsBytes(vectorsFile.data)
                                     > VectorsBytes(IndexVectors(kloc[p])))
    /\ Goto(p, "save_meta_open")
    /\ UNCHANGED <<textsFile, metaFile, kloc, kfile, kres, kout, calls, onlyAdds>>
    /\ UNCHANGED notKB

\* _save_meta, line 45: open(KB_META, "w")
SaveMetaOpen(p) ==
    /\ kpc[p] = "save_meta_open"
    /\ metaFile' = Truncate(metaFile, p)
    /\ Goto(p, "save_meta_write")
    /\ UNCHANGED <<textsFile, vectorsFile, kloc, kfile, kres, kout, calls, onlyAdds>>
    /\ UNCHANGED notKB

\* the meta build_index_from_texts saves: {} at line 70, {"n_texts": n} at 78
IndexMeta(ts) == IF Len(ts) = 0 THEN <<>> ELSE <<Len(ts)>>

\* _save_meta, line 46: json.dump and close; build_index_from_texts returns
SaveMetaWrite(p) ==
    /\ kpc[p] = "save_meta_write"
    /\ metaFile' = Written(metaFile, p, IndexMeta(kloc[p]),
                           /\ metaFile.st = "full"
                           /\ MetaBytes(metaFile.data) > MetaBytes(IndexMeta(kloc[p])))
    /\ BuildReturn(p, "ok")
    /\ UNCHANGED <<textsFile, vectorsFile, kfile, kout, onlyAdds>>
    /\ UNCHANGED notKB

\* ---- clear_kb(), lines 115-119: for p in [KB_TEXTS, KB_VECTORS, KB_META]
ClearCall(p) ==
    /\ kpc[p] = "idle"
    /\ kop' = [kop EXCEPT ![p] = [NoOp EXCEPT !.op = "clear"]]
    /\ kres' = [kres EXCEPT ![p] = "none"]
    /\ kout' = [kout EXCEPT ![p] = <<>>]
    /\ kfile' = [kfile EXCEPT ![p] = 1]
    /\ kpc' = [kpc EXCEPT ![p] = "clear_exists"]
    /\ calls' = <<>>
    /\ onlyAdds' = FALSE
    /\ UNCHANGED <<textsFile, vectorsFile, metaFile, kloc>>
    /\ UNCHANGED notKB

\* a loop that looks at KB_TEXTS each time
KBFileTextsOnly(i) == textsFile

\* clear_kb, line 117: the file the loop is at
KBFile(i) == IF i = 1 THEN textsFile ELSE IF i = 2 THEN vectorsFile ELSE metaFile

\* the loop moves to the next file, or clear_kb returns
ClearAdvance(p) ==
    IF kfile[p] < 3
    THEN /\ kfile' = [kfile EXCEPT ![p] = kfile[p] + 1]
         /\ Goto(p, "clear_exists")
         /\ UNCHANGED <<kres, kloc, calls, onlyAdds>>
    ELSE /\ kfile' = [kfile EXCEPT ![p] = 0]
         /\ Return(p, "ok")
         /\ calls' = <<>>
         /\ onlyAdds' = \A q \in Procs \ {p} : kpc[q] = "idle"

\* line 118: p.exists()
ClearExists(p) ==
    /\ kpc[p] = "clear_exists"
    /\ IF Exists(KBFile(kfile[p]))
       THEN /\ Goto(p, "clear_unlink")
            /\ UNCHANGED <<kfile, kres, kloc, calls, onlyAdds>>
       ELSE ClearAdvance(p)
    /\ UNCHANGED <<textsFile, vectorsFile, metaFile, kout>>
    /\ UNCHANGED notKB

\* line 119: p.unlink(), FileNotFoundError when the file went away meanwhile
ClearUnlink(p) ==
    /\ kpc[p] = "clear_unlink"
    /\ IF Exists(KBFile(kfile[p]))
       THEN /\ textsFile' = IF kfile[p] = 1 THEN Absent ELSE textsFile
            /\ vectorsFile' = IF kfile[p] = 2 THEN Absent ELSE vectorsFile
            /\ metaFile' = IF kfile[p] = 3 THEN Absent ELSE metaFile
            /\ ClearAdvance(p)
       ELSE /\ Return(p, "FileNotFoundError")
            /\ kfile' = [kfile EXCEPT ![p] = 0]
            /\ UNCHANGED <<textsFile, vectorsFile, metaFile, calls, onlyAdds>>
    /\ UNCHANGED <<kout>>
    /\ UNCHANGED notKB

\* a step inside a call of process p
KBInside(p) ==
    \/ LoadTextsExists(p)
    \/ LoadTextsRead(p)
    \/ SaveTextsOpen(p)
    \/ SaveTextsWrite(p)
    \/ SaveVectorsOpen(p)
    \/ SaveVectorsWrite(p)
    \/ SaveMetaOpen(p)
    \/ SaveMetaWrite(p)
    \/ ClearExists(p)
    \/ ClearUnlink(p)

\* one step of process p: it starts a call, or goes on with the one it is in
KBStep(p) ==
    \/ \E new \in SeqsUpTo(ChunkDicts, MaxAdd) : AddCall(p, new)
    \/ \E q \in Texts, k \in 1..MaxTopK : QueryCall(p, q, k)
    \/ \E ts \in SeqsUpTo(TextStrs, MaxAdd) : BuildCall(p, ts)
    \/ ClearCall(p)
    \/ KBInside(p)

\* the same with the calls the application makes while another may be running
KBStepConc(p) ==
    \/ \E new \in SeqsUpTo(ChunkDicts, MaxAddConc) : AddCall(p, new)
    \/ \E q \in Texts, k \in 1..MaxTopK : QueryCall(p, q, k)
    \/ ClearCall(p)
    \/ KBInside(p)

(***************************************************************************)
(* Ingestion: index_pdf_bytes_to_kb, brain.py.  The document is one that   *)
(* PdfReader parses; what extract_text does on a page is the page's kind.  *)
(* Process 1 of the knowledge store is the ingesting caller; process 2     *)
(* makes the calls that came before.                                       *)
(***************************************************************************)
\* a page: extract_text raises on it, or gives whitespace only, or a text of
\* at most chunk_size characters, or a text of more
PageRaises == [kind |-> "raises", text |-> "-"]

PageBlank == [kind |-> "blank", text |-> " "]

PageText(t) == [kind |-> "text", text |-> t]

PageLong == [kind |-> "long", text |-> "-"]

Pages == {PageRaises, PageBlank, PageLong} \cup {PageText(t) : t \in Texts}

Docs == UNION {[1..n -> Pages] : n \in 1..MaxPages}

\* line 289: f"{source_name} | page {i+1}, chunk {j+1}", for the one chunk
\* of page i of the document named doc
Label(i) ==
    IF i = 1 THEN "doc | page 1, chunk 1"
    ELSE IF i = 2 THEN "doc | page 2, chunk 1"
    ELSE IF i = 3 THEN "doc | page 3, chunk 1"
    ELSE "doc | page 4, chunk 1"

\* line 284: split_text_to_chunks(text, chunk_size=800, overlap=100) returns:
\* with a text of more than chunk_size characters and overlap > 0 its loop
\* does not end
ChunkerReturns(page) == page.kind # "long"

\* lines 272-293 on the pages up to n: the chunks appended to new_chunks
RECURSIVE NewChunks(_, _)
NewChunks(doc, n) ==
    IF n = 0
    THEN <<>>
    ELSE IF doc[n].kind = "text"
    THEN Append(NewChunks(doc, n - 1), DictEl(doc[n].text, Label(n)))
    ELSE NewChunks(doc, n - 1)

IngInit ==
    /\ ipc = "idle"
    /\ idoc = <<>>
    /\ inew = <<>>
    /\ ires = "none"
    /\ icount = 0
    /\ iprior = <<>>

\* the texts texts.json holds
StoredTexts ==
    IF textsFile.st = "full"
    THEN [i \in 1..Len(textsFile.data) |-> textsFile.data[i].text]
    ELSE <<>>

\* a call on the store made before the document is ingested
PriorAdd ==
    /\ ipc = "idle"
    /\ Len(calls) + 1 < MaxCalls
    /\ \E new \in [1..1 -> ChunkDicts] : AddCall(2, new)

PriorClear == ipc = "idle" /\ ClearCall(2)

PriorInside == ipc = "idle" /\ KBInside(2)

\* index_pdf_bytes_to_kb(pdf_bytes, source_name), lines 262-295: the loop over
\* the pages, up to the call of add_texts_to_index or the return
IngestCall ==
    /\ ipc = "idle"
    /\ kpc[2] = "idle"
    /\ \E doc \in Docs :
          /\ idoc' = doc
          /\ iprior' = StoredTexts
          /\ IF \E i \in 1..Len(doc) : ~ChunkerReturns(doc[i])
             THEN /\ ipc' = "chunking"
                  /\ UNCHANGED <<inew, ires, icount>>
             ELSE /\ inew' = NewChunks(doc, Len(doc))
                  /\ IF NewChunks(doc, Len(doc)) = <<>>
                     THEN /\ ipc' = "done"
                          /\ ires' = "ok"
                          /\ icount' = 0
                     ELSE /\ ipc' = "adding"
                          /\ UNCHANGED <<ires, icount>>
    /\ UNCHANGED kbVars
    /\ UNCHANGED notIng

\* line 296: add_texts_to_index(new_chunks) is called
IngestAdd ==
    /\ ipc = "adding"
    /\ kop[1].op = "none"
    /\ AddCall(1, inew)

\* add_texts_to_index goes on
IngestInside == ipc = "adding" /\ KBInside(1)

\* add_texts_to_index has ended: line 298 returns len(new_chunks), or what
\* add_texts_to_index raised leaves index_pdf_bytes_to_kb
IngestReturn ==
    /\ ipc = "adding"
    /\ kop[1].op = "add" /\ kpc[1] = "idle"
    /\ ipc' = "done"
    /\ ires' = kres[1]
    /\ icount' = IF kres[1] = "ok" THEN Len(inew) ELSE icount
    /\ UNCHANGED <<idoc, inew, iprior>>
    /\ UNCHANGED kbVars
    /\ UNCHANGED notIng

IngNext ==
    \/ PriorAdd
    \/ PriorClear
    \/ PriorInside
    \/ IngestCall
    \/ IngestAdd
    \/ IngestInside
    \/ IngestReturn

(***************************************************************************)
(* Generation client: ai_service.py.  One call of ask_brain or of           *)
(* stream_chat; what the two backends answer is chosen when they answer.   *)
(* A step runs the coroutine from one suspension point to the next; the    *)
(* thread running _stream_sync takes its own steps in between.             *)
(***************************************************************************)
Providers == {"auto", "google", "ollama", "other"}

Prompts == {"q1", "q2"}

Roles == {"user", "assistant"}

\* a message history: message i has role rs[i] and content i
History(rs) == [i \in 1..Len(rs) |-> [role |-> rs[i], content |-> i]]

\* the texts of a response, and the fragments of a stream
Answers == {"", "x"}

Frags == {"a", "b"}

\* the message of a failed Google AI call, as the marks the code looks for in it
PrimaryErrors == {{"429"}, {"quota", "quota exceeded"}, {"429", "daily"},
                  {"timeout"}, {"invalid"}}

\* what httpx raises in _ask_ollama and _stream_ollama
OllamaErrors == {"TimeoutException", "ConnectError", "HTTPError"}

\* exception_holder[0] is None
NoExc == {"-"}

None == "None"

NoReply == [st |-> "none", text |-> "", err |-> "-"]

Replied(t) == [st |-> "ok", text |-> t, err |-> "-"]

Failed(e) == [st |-> "failed", text |-> "", err |-> e]

\* the marks lines 132-138 and 322-327 look for in str(e), and the messages
\* they tell apart: a message is the set of the marks it holds, and one that
\* holds "quota exceeded" holds "quota"
ErrorMarks == {"429", "rate limit", "quota", "quota exceeded", "daily",
               "network", "connection", "timeout"}

ErrorMessages == {m \in SUBSET ErrorMarks : "quota exceeded" \in m => "quota" \in m}

\* lines 318-330: the exception _stream_google_ai raises for a failed call
ClassifyStream(m) ==
    IF "429" \in m \/ "rate limit" \in m \/ "quota" \in m
    THEN IF "daily" \in m \/ "quota exceeded" \in m
         THEN "QuotaExceededError"
         ELSE "RateLimitError"
    ELSE IF "network" \in m \/ "connection" \in m \/ "timeout" \in m
    THEN "NetworkError"
    ELSE "OriginalError"

\* the network marks looked for before the rate limit marks
ClassifyNetworkFirst(m) ==
    IF "network" \in m \/ "connection" \in m \/ "timeout" \in m
    THEN "NetworkError"
    ELSE IF "429" \in m \/ "rate limit" \in m \/ "quota" \in m
    THEN IF "daily" \in m \/ "quota exceeded" \in m
         THEN "QuotaExceededError"
         ELSE "RateLimitError"
    ELSE "OriginalError"

\* lines 127-141: the exception _ask_google_ai raises for a failed call
Classify(m) ==
    IF "429" \in m \/ "rate limit" \in m \/ "quota" \in m
    THEN IF "daily" \in m \/ "quota exceeded" \in m
         THEN "QuotaExceededError"
         ELSE "RateLimitError"
    ELSE IF "network" \in m \/ "connection" \in m \/ "timeout" \in m
    THEN "NetworkError"
    ELSE "OriginalError"

\* lines 161-169 and 364-372: the exception raised for a failed Ollama call
OllamaRaises(e) == IF e = "ConnectError" THEN "NetworkError" ELSE e

\* lines 86 and 198: the condition under which auto mode tries Google AI
Configured == googleAvailable /\ googleKey /\ googleModel

\* except clauses that catch the three classified errors only
FallsBackClassifiedOnly(prov, e) == prov = "auto" /\ e # "OriginalError"

\* lines 87-99 and 199-210: the except clauses around the Google AI call,
\* there in auto mode only, catch every exception e
FallsBack(prov, e) == prov = "auto"

\* lines 245-258: the history given to start_chat and the message streamed
ChatHistory(ms) ==
    LET kept(i) == /\ i < Len(ms)
                   /\ ms[i].role \in {"user", "assistant"}
        entry(i) == [role |-> IF ms[i].role = "user" THEN "user" ELSE "model",
                     parts |-> <<ms[i].content>>]
        F[i \in 0..Len(ms)] ==
            IF i = 0 THEN <<>>
            ELSE IF kept(i) THEN Append(F[i - 1], entry(i)) ELSE F[i - 1]
    IN  F[Len(ms)]

\* last_user_message, 0 standing for None
LastUserMessage(ms) ==
    IF ms # <<>> /\ ms[Len(ms)].role = "user" THEN ms[Len(ms)].content ELSE 0

GenInit ==
    /\ googleAvailable \in BOOLEAN
    /\ googleKey \in BOOLEAN
    /\ googleModel \in BOOLEAN
    /\ googleModel => (googleAvailable /\ googleKey)
    /\ callKind \in {"ask", "stream"}
    /\ provider \in Providers
    /\ prompt \in (IF callKind = "ask" THEN Prompts ELSE {"-"})
    /\ messages \in (IF callKind = "stream"
                     THEN {History(rs) : rs \in SeqsUpTo(Roles, MaxMsgs)}
                     ELSE {<<>>})
    /\ gpc = "call"
    /\ gres = "none"
    /\ gtext = ""
    /\ primaryReqs = <<>>
    /\ fallbackReqs = <<>>
    /\ primaryReply = NoReply
    /\ fallbackReply = NoReply
    /\ chunk_queue = <<>>
    /\ exception_holder = NoExc
    /\ ppc = "idle"
    /\ futureDone = FALSE
    /\ produced = <<>>
    /\ nfrag = 0
    /\ delivered = <<>>
    /\ primaryEnd = "none"

\* the call ends: it returned (r = "ok") or raised r
GenEnds(r) ==
    /\ gres' = r
    /\ gpc' = IF r = "ok" THEN "done" ELSE "raised"

\* ---- ask_brain, lines 84-116, up to its first await
AskCall ==
    /\ gpc = "call" /\ callKind = "ask"
    /\ IF provider = "auto"
       THEN IF Configured
            THEN /\ primaryReqs' = Append(primaryReqs, prompt)
                 /\ gpc' = "ask_primary"
                 /\ UNCHANGED <<gres, fallbackReqs>>
            ELSE /\ fallbackReqs' = Append(fallbackReqs, prompt)
                 /\ gpc' = "ask_fallback"
                 /\ UNCHANGED <<gres, primaryReqs>>
       ELSE IF provider = "google"
       THEN IF ~googleAvailable \/ ~googleKey
            THEN /\ GenEnds("ValueError")
                 /\ UNCHANGED <<primaryReqs, fallbackReqs>>
            ELSE /\ primaryReqs' = Append(primaryReqs, prompt)
                 /\ gpc' = "ask_primary"
                 /\ UNCHANGED <<gres, fallbackReqs>>
       ELSE IF provider = "ollama"
       THEN /\ fallbackReqs' = Append(fallbackReqs, prompt)
            /\ gpc' = "ask_fallback"
            /\ UNCHANGED <<gres, primaryReqs>>
       ELSE /\ GenEnds("ValueError")
            /\ UNCHANGED <<primaryReqs, fallbackReqs>>
    /\ UNCHANGED <<googleAvailable, googleKey, googleModel, callKind, provider,
                   prompt, messages, gtext, primaryReply, fallbackReply,
                   chunk_queue, exception_holder, ppc, futureDone, produced,
                   nfrag, delivered, primaryEnd>>
    /\ UNCHANGED notGen

\* _ask_google_ai, lines 119-141, answers; ask_brain goes on, lines 88-103
AskPrimaryReplies ==
    /\ gpc = "ask_primary"
    /\ \E r \in {Replied(t) : t \in Answers} \cup {Failed(m) : m \in PrimaryErrors} :
          /\ primaryReply' = r
          /\ IF r.st = "ok"
             THEN /\ GenEnds("ok")
                  /\ gtext' = r.text
                  /\ UNCHANGED fallbackReqs
             ELSE IF FallsBack(provider, Classify(r.err))
             THEN /\ fallbackReqs' = Append(fallbackReqs, prompt)
                  /\ gpc' = "ask_fallback"
                  /\ UNCHANGED <<gres, gtext>>
             ELSE /\ GenEnds(Classify(r.err))
                  /\ UNCHANGED <<gtext, fallbackReqs>>
    /\ UNCHANGED <<googleAvailable, googleKey, googleModel, callKind, provider,
                   prompt, messages, primaryReqs, fallbackReply,
                   chunk_queue, exception_holder, ppc, futureDone, produced,
                   nfrag, delivered, primaryEnd>>
    /\ UNCHANGED notGen

\* _ask_ollama, lines 144-169, answers; ask_brain returns or raises what it did
AskFallbackReplies ==
    /\ gpc = "ask_fallback"
    /\ \E r \in {Replied(t) : t \in Answers} \cup {Failed(e) : e \in OllamaErrors} :
          /\ fallbackReply' = r
          /\ IF r.st = "ok"
             THEN /\ GenEnds("ok")
                  /\ gtext' = r.text
             ELSE /\ GenEnds(OllamaRaises(r.err))
                  /\ UNCHANGED gtext
    /\ UNCHANGED <<googleAvailable, googleKey, googleModel, callKind, provider,
                   prompt, messages, primaryReqs, fallbackReqs, primaryReply,
                   chunk_queue, exception_holder, ppc, futureDone, produced,
                   nfrag, delivered, primaryEnd>>
    /\ UNCHANGED notGen

\* _stream_ollama is entered, lines 335-350: the request goes out
StartFallbackStream ==
    /\ fallbackReqs' = Append(fallbackReqs, messages)
    /\ gpc' = "fb_connect"
    /\ UNCHANGED gres

\* _stream_google_ai is entered, lines 241-285: with a last user message the
\* thread is started; without one the generator returns at once
StartPrimaryStream ==
    IF LastUserMessage(messages) # 0
    THEN /\ ppc' = "send"
         /\ gpc' = "sp_top"
         /\ UNCHANGED <<gres, primaryEnd>>
    ELSE /\ primaryEnd' = "returned"
         /\ GenEnds("ok")
         /\ UNCHANGED ppc

\* ---- stream_chat, lines 196-231, from the first pull to the first suspension
StreamCall ==
    /\ gpc = "call" /\ callKind = "stream"
    /\ IF provider = "auto"
       THEN IF Configured
            THEN StartPrimaryStream /\ UNCHANGED fallbackReqs
            ELSE StartFallbackStream /\ UNCHANGED <<ppc, primaryEnd>>
       ELSE IF provider = "google"
       THEN IF ~googleAvailable \/ ~googleKey
            THEN GenEnds("ValueError") /\ UNCHANGED <<ppc, primaryEnd, fallbackReqs>>
            ELSE StartPrimaryStream /\ UNCHANGED fallbackReqs
       ELSE IF provider = "ollama"
       THEN StartFallbackStream /\ UNCHANGED <<ppc, primaryEnd>>
       ELSE GenEnds("ValueError") /\ UNCHANGED <<ppc, primaryEnd, fallbackReqs>>
    /\ UNCHANGED <<googleAvailable, googleKey, googleModel, callKind, provider,
                   prompt, messages, gtext, primaryReqs, primaryReply,
                   fallbackReply, chunk_queue, exception_holder, futureDone,
                   produced, nfrag, delivered>>
    /\ UNCHANGED notGen

\* ---- the thread: _stream_sync, lines 270-280
\* line 273: chat.send_message(last_user_message, stream=True)
ProducerSend ==
    /\ ppc = "send"
    /\ primaryReqs' = Append(primaryReqs, [history |-> ChatHistory(messages),
                                          message |-> LastUserMessage(messages)])
    /\ \/ /\ ppc' = "iter"
          /\ UNCHANGED <<exception_holder, primaryReply>>
       \/ \E m \in PrimaryErrors :
             /\ exception_holder' = m
             /\ primaryReply' = Failed(m)
             /\ ppc' = "put_none"
    /\ UNCHANGED <<googleAvailable, googleKey, googleModel, callKind, provider,
                   prompt, messages, gpc, gres, gtext, fallbackReqs,
                   fallbackReply, chunk_queue, futureDone, produced, nfrag,
                   delivered, primaryEnd>>
    /\ UNCHANGED notGen

\* lines 274-276: the response gives its next fragment, put when not empty
ProducerFragment ==
    /\ ppc = "iter"
    /\ nfrag < MaxFrags
    /\ \E t \in Frags \cup {""} :
          /\ nfrag' = nfrag + 1
          /\ chunk_queue' = IF t # "" THEN Append(chunk_queue, t) ELSE chunk_queue
          /\ produced' = IF t # "" THEN Append(produced, t) ELSE produced
    /\ UNCHANGED <<googleAvailable, googleKey, googleModel, callKind, provider,
                   prompt, messages, gpc, gres, gtext, primaryReqs, fallbackReqs,
                   primaryReply, fallbackReply, exception_holder, ppc,
                   futureDone, delivered, primaryEnd>>
    /\ UNCHANGED notGen

\* line 277: the response is over, None is put, the thread is done
ProducerEnd ==
    /\ ppc = "iter"
    /\ chunk_queue' = Append(chunk_queue, None)
    /\ primaryReply' = Replied("")
    /\ ppc' = "finished"
    /\ UNCHANGED <<googleAvailable, googleKey, googleModel, callKind, provider,
                   prompt, messages, gpc, gres, gtext, primaryReqs, fallbackReqs,
                   fallbackReply, exception_holder, futureDone, produced, nfrag,
                   delivered, primaryEnd>>
    /\ UNCHANGED notGen

\* lines 278-279: the response raises, the exception goes into the holder
ProducerFail ==
    /\ ppc = "iter"
    /\ \E m \in PrimaryErrors :
          /\ exception_holder' = m
          /\ primaryReply' = Failed(m)
    /\ ppc' = "put_none"
    /\ UNCHANGED <<googleAvailable, googleKey, googleModel, callKind, provider,
                   prompt, messages, gpc, gres, gtext, primaryReqs, fallbackReqs,
                   fallbackReply, chunk_queue, futureDone, produced, nfrag,
                   delivered, primaryEnd>>
    /\ UNCHANGED notGen

\* line 280: None is put after the exception, the thread is done
ProducerPutNone ==
    /\ ppc = "put_none"
    /\ chunk_queue' = Append(chunk_queue, None)
    /\ ppc' = "finished"
    /\ UNCHANGED <<googleAvailable, googleKey, googleModel, callKind, provider,
                   prompt, messages, gpc, gres, gtext, primaryReqs, fallbackReqs,
                   primaryReply, fallbackReply, exception_holder, futureDone,
                   produced, nfrag, delivered, primaryEnd>>
    /\ UNCHANGED notGen

\* the event loop runs the callback that marks the future done: only while
\* the coroutine is suspended, and after the thread is done
LoopCallback ==
    /\ ppc = "finished"
    /\ ~futureDone
    /\ gpc \in {"sp_sleep", "sp_yielded"}
    /\ futureDone' = TRUE
    /\ UNCHANGED <<googleAvailable, googleKey, googleModel, callKind, provider,
                   prompt, messages, gpc, gres, gtext, primaryReqs, fallbackReqs,
                   primaryReply, fallbackReply, chunk_queue, exception_holder,
                   ppc, produced, nfrag, delivered, primaryEnd>>
    /\ UNCHANGED notGen

\* ---- the coroutine: _stream_google_ai, lines 287-330, inside stream_chat
\* the exception of the holder is raised (lines 292, 302), classified (lines
\* 318-330) and reaches stream_chat: caught there, lines 203-215, or raised
PrimaryStreamRaises ==
    LET e == ClassifyStream(exception_holder)
    IN  /\ primaryEnd' = "raised"
        /\ IF FallsBack(provider, e)
           THEN StartFallbackStream
           ELSE GenEnds(e) /\ UNCHANGED fallbackReqs

\* the loop is left by break (lines 304, 310): stream_chat returns
PrimaryStreamReturns ==
    /\ primaryEnd' = "returned"
    /\ GenEnds("ok")
    /\ UNCHANGED fallbackReqs

\* lines 290-292: the top of the loop looks at the holder
ConsumerTop ==
    /\ gpc = "sp_top"
    /\ IF exception_holder # NoExc
       THEN PrimaryStreamRaises
       ELSE /\ gpc' = "sp_get"
            /\ UNCHANGED <<gres, fallbackReqs, primaryEnd>>
    /\ UNCHANGED <<googleAvailable, googleKey, googleModel, callKind, provider,
                   prompt, messages, gtext, primaryReqs, primaryReply,
                   fallbackReply, chunk_queue, exception_holder, ppc,
                   futureDone, produced, nfrag, delivered>>
    /\ UNCHANGED notGen

\* lines 295-311: get_nowait; a fragment is yielded, None ends the loop, and
\* on an empty queue the future decides between leaving and sleeping
ConsumerGet ==
    /\ gpc = "sp_get"
    /\ IF chunk_queue # <<>>
       THEN /\ chunk_queue' = Tail(chunk_queue)
            /\ IF Head(chunk_queue) = None
               THEN PrimaryStreamReturns /\ UNCHANGED delivered
               ELSE /\ delivered' = Append(delivered, [src |-> "primary",
                                                       text |-> Head(chunk_queue)])
                    /\ gpc' = "sp_yielded"
                    /\ UNCHANGED <<gres, fallbackReqs, primaryEnd>>
       ELSE /\ UNCHANGED <<chunk_queue, delivered>>
            /\ IF futureDone
               THEN IF exception_holder # NoExc
                    THEN PrimaryStreamRaises
                    ELSE PrimaryStreamReturns
               ELSE /\ gpc' = "sp_sleep"
                    /\ UNCHANGED <<gres, fallbackReqs, primaryEnd>>
    /\ UNCHANGED <<googleAvailable, googleKey, googleModel, callKind, provider,
                   prompt, messages, gtext, primaryReqs, primaryReply,
                   fallbackReply, exception_holder, ppc, futureDone, produced,
                   nfrag>>
    /\ UNCHANGED notGen

\* the sleep of line 306 is over, or the consumer pulls the next fragment
ConsumerResume ==
    /\ gpc \in {"sp_sleep", "sp_yielded"}
    /\ gpc' = "sp_top"
    /\ UNCHANGED <<googleAvailable, googleKey, googleModel, callKind, provider,
                   prompt, messages, gres, gtext, primaryReqs, fallbackReqs,
                   primaryReply, fallbackReply, chunk_queue, exception_holder,
                   ppc, futureDone, produced, nfrag, delivered, primaryEnd>>
    /\ UNCHANGED notGen

\* ---- _stream_ollama, lines 340-372, inside stream_chat
FallbackDelivered == SelectSeq(delivered, LAMBDA d : d.src = "fallback")

\* lines 342-351: the response arrives, or the request fails
FallbackResponds ==
    /\ gpc = "fb_connect"
    /\ \/ /\ gpc' = "fb_iter"
          /\ UNCHANGED <<gres, fallbackReply>>
       \/ \E e \in OllamaErrors :
             /\ fallbackReply' = Failed(e)
             /\ GenEnds(OllamaRaises(e))
    /\ UNCHANGED <<googleAvailable, googleKey, googleModel, callKind, provider,
                   prompt, messages, gtext, primaryReqs, fallbackReqs,
                   primaryReply, chunk_queue, exception_holder, ppc,
                   futureDone, produced, nfrag, delivered, primaryEnd>>
    /\ UNCHANGED notGen

\* lines 353-360: a line with a message content is yielded
FallbackFragment ==
    /\ gpc = "fb_iter"
    /\ Len(FallbackDelivered) < MaxFrags
    /\ \E t \in Frags \cup {""} :
          delivered' = Append(delivered, [src |-> "fallback", text |-> t])
    /\ gpc' = "fb_yielded"
    /\ UNCHANGED <<googleAvailable, googleKey, googleModel, callKind, provider,
                   prompt, messages, gres, gtext, primaryReqs, fallbackReqs,
                   primaryReply, fallbackReply, chunk_queue, exception_holder,
                   ppc, futureDone, produced, nfrag, primaryEnd>>
    /\ UNCHANGED notGen

\* line 363: the lines are over, stream_chat returns; or reading them raises
FallbackEnds ==
    /\ gpc = "fb_iter"
    /\ \/ /\ fallbackReply' = Replied("")
          /\ GenEnds("ok")
       \/ \E e \in OllamaErrors \ {"ConnectError"} :
             /\ fallbackReply' = Failed(e)
             /\ GenEnds(OllamaRaises(e))
    /\ UNCHANGED <<googleAvailable, googleKey, googleModel, callKind, provider,
                   prompt, messages, gtext, primaryReqs, fallbackReqs,
                   primaryReply, chunk_queue, exception_holder, ppc,
                   futureDone, produced, nfrag, delivered, primaryEnd>>
    /\ UNCHANGED notGen

\* the consumer pulls the next fragment
FallbackResume ==
    /\ gpc = "fb_yielded"
    /\ gpc' = "fb_iter"
    /\ UNCHANGED <<googleAvailable, googleKey, googleModel, callKind, provider,
                   prompt, messages, gres, gtext, primaryReqs, fallbackReqs,
                   primaryReply, fallbackReply, chunk_queue, exception_holder,
                   ppc, futureDone, produced, nfrag, delivered, primaryEnd>>
    /\ UNCHANGED notGen

\* ---- the consumer closes the stream it was pulling from
\* line 313 with wait=True
ShutdownWaitsForThread == TRUE

\* line 313: executor.shutdown(wait=False) returns without joining the thread
ShutdownWaits == FALSE

\* where a stream_chat call is suspended: at a yield (lines 202, 224, 311,
\* 360), in the sleep of line 306, or waiting for Ollama (lines 342-353)
Closable ==
    /\ callKind = "stream"
    /\ gpc \in {"sp_yielded", "sp_sleep", "fb_yielded", "fb_iter", "fb_connect"}

\* GeneratorExit (or the cancellation of the pulling task) is raised where
\* the generators are suspended: no except clause of lines 203-215, 318 or
\* 364-372 catches it, the finally of line 312 shuts the executor down and
\* the async with blocks of lines 341-342 close the connection to Ollama;
\* stream_chat is over.  The thread running _stream_sync is left to itself.
ConsumerCloses ==
    /\ Closable
    /\ (gpc \in {"sp_yielded", "sp_sleep"} /\ ShutdownWaits) => ppc = "finished"
    /\ gpc' = "closed"
    /\ gres' = "closed"
    /\ UNCHANGED <<googleAvailable, googleKey, googleModel, callKind, provider,
                   prompt, messages, gtext, primaryReqs, fallbackReqs,
                   primaryReply, fallbackReply, chunk_queue, exception_holder,
                   ppc, futureDone, produced, nfrag, delivered, primaryEnd>>
    /\ UNCHANGED notGen

\* the steps of the thread running _stream_sync
Producer ==
    ProducerSend \/ ProducerFragment \/ ProducerEnd \/ ProducerFail \/ ProducerPutNone

GenNext ==
    \/ AskCall
    \/ AskPrimaryReplies
    \/ AskFallbackReplies
    \/ StreamCall
    \/ ProducerSend
    \/ ProducerFragment
    \/ ProducerEnd
    \/ ProducerFail
    \/ ProducerPutNone
    \/ LoopCallback
    \/ ConsumerTop
    \/ ConsumerGet
    \/ ConsumerResume
    \/ FallbackResponds
    \/ FallbackFragment
    \/ FallbackEnds
    \/ FallbackResume

\* the except clause of line 127 (callKind "ask") or of line 318 (callKind
\* "stream") has caught the exception of a failed Google AI call
ExceptInit ==
    /\ googleAvailable = TRUE
    /\ googleKey = TRUE
    /\ googleModel = TRUE
    /\ callKind \in {"ask", "stream"}
    /\ provider = "google"
    /\ prompt = "-"
    /\ messages = <<>>
    /\ gpc = "except"
    /\ gres = "none"
    /\ gtext = ""
    /\ primaryReqs = <<>>
    /\ fallbackReqs = <<>>
    /\ primaryReply \in {Failed(m) : m \in ErrorMessages}
    /\ fallbackReply = NoReply
    /\ chunk_queue = <<>>
    /\ exception_holder = NoExc
    /\ ppc = "idle"
    /\ futureDone = FALSE
    /\ produced = <<>>
    /\ nfrag = 0
    /\ delivered = <<>>
    /\ primaryEnd = "none"

\* lines 128-141, or lines 319-330: the clause raises
ExceptRaises ==
    /\ gpc = "except"
    /\ GenEnds(IF callKind = "ask"
               THEN Classify(primaryReply.err)
               ELSE ClassifyStream(primaryReply.err))
    /\ UNCHANGED <<googleAvailable, googleKey, googleModel, callKind, provider,
                   prompt, messages, gtext, primaryReqs, fallbackReqs,
                   primaryReply, fallbackReply, chunk_queue, exception_holder,
                   ppc, futureDone, produced, nfrag, delivered, primaryEnd>>
    /\ UNCHANGED notGen

\* the generation client at rest
GenIdle ==
    /\ googleAvailable = FALSE
    /\ googleKey = FALSE
    /\ googleModel = FALSE
    /\ callKind = "ask"
    /\ provider = "auto"
    /\ prompt = "-"
    /\ messages = <<>>
    /\ gpc = "done"
    /\ gres = "none"
    /\ gtext = ""
    /\ primaryReqs = <<>>
    /\ fallbackReqs = <<>>
    /\ primaryReply = NoReply
    /\ fallbackReply = NoReply
    /\ chunk_queue = <<>>
    /\ exception_holder = NoExc
    /\ ppc = "idle"
    /\ futureDone = FALSE
    /\ produced = <<>>
    /\ nfrag = 0
    /\ delivered = <<>>
    /\ primaryEnd = "none"

(***************************************************************************)
(* WebSocket chat handler: the regular-chat branch of one turn of          *)
(* websocket_chat, api/v1/chat.py lines 205-232.  stream_chat is what it   *)
(* gives this turn: some fragments, then its end or the exception it       *)
(* raises in auto mode.                                                    *)
(***************************************************************************)
StreamEnds == {"ok"} \cup {OllamaRaises(e) : e \in OllamaErrors}

Streams == {[frags |-> f, end |-> e] : f \in SeqsUpTo(Frags \cup {""}, MaxFrags),
                                       e \in StreamEnds}

Event(t, c) == [type |-> t, content |-> c]

ChatIdle ==
    /\ wpc = "done"
    /\ wstream = [frags |-> <<>>, end |-> "ok"]
    /\ wpos = 0
    /\ response_text = <<>>
    /\ wevents = <<>>
    /\ wstored = <<>>

\* lines 207-209: response_text = "" and the stream is opened
ChatInit ==
    /\ wpc = "streaming"
    /\ wstream \in Streams
    /\ wpos = 0
    /\ response_text = <<>>
    /\ wevents = <<>>
    /\ wstored = <<>>

\* lines 209-214: the next fragment is added to response_text and sent
ChatChunk ==
    /\ wpc = "streaming"
    /\ wpos < Len(wstream.frags)
    /\ LET chunk == wstream.frags[wpos + 1]
       IN /\ response_text' = Append(response_text, chunk)
          /\ wevents' = Append(wevents, Event("chunk", <<chunk>>))
    /\ wpos' = wpos + 1
    /\ UNCHANGED <<wpc, wstream, wstored>>
    /\ UNCHANGED notChat

\* the stream is over or raises (lines 215-216), then lines 218-232: the
\* assistant message is committed and the completion is sent
ChatStreamEnds ==
    /\ wpc = "streaming"
    /\ wpos = Len(wstream.frags)
    /\ LET final == IF wstream.end = "ok"
                    THEN response_text
                    ELSE <<"Error: ", wstream.end>>
       IN /\ response_text' = final
          /\ wstored' = Append(wstored, [role |-> "assistant", content |-> final])
          /\ wevents' = Append(wevents, Event("complete", final))
    /\ wpc' = "done"
    /\ UNCHANGED <<wstream, wpos>>
    /\ UNCHANGED notChat

(***************************************************************************)
(* Answerer: query_rag of api/v1/rag.py over ask_with_context and          *)
(* ask_brain of brain.py.  A string is the sequence of its pieces: a word, *)
(* a space, a newline, a comma, or one of the two marker phrases that      *)
(* ask_with_context writes and query_rag looks for.                        *)
(***************************************************************************)
SourcesUsed == "Sources used:"

SourcesNone == "(Sources: none)"

Whitespace == {" ", "\n"}

\* query.question
Question == <<"what", " ", "now">>

\* str.strip(): leading and trailing whitespace removed
RECURSIVE LStripWs(_)
LStripWs(s) == IF s # <<>> /\ Head(s) \in Whitespace THEN LStripWs(Tail(s)) ELSE s

RECURSIVE RStripWs(_)
RStripWs(s) ==
    IF s # <<>> /\ s[Len(s)] \in Whitespace
    THEN RStripWs(SubSeq(s, 1, Len(s) - 1))
    ELSE s

StripWs(s) == LStripWs(RStripWs(s))

\* sep in s, for a one-piece sep
Contains(s, sep) == \E i \in 1..Len(s) : s[i] = sep

\* s.split(sep), for a one-piece sep: the stretches between its occurrences
RECURSIVE SplitOn(_, _)
SplitOn(s, sep) ==
    IF ~Contains(s, sep)
    THEN <<s>>
    ELSE LET i == CHOOSE k \in 1..Len(s) :
                      s[k] = sep /\ \A j \in 1..(k - 1) : s[j] # sep
         IN <<SubSeq(s, 1, i - 1)>> \o SplitOn(SubSeq(s, i + 1, Len(s)), sep)

\* s.replace(old, ""), for a one-piece old
Replace(s, old) == SelectSeq(s, LAMBDA c : c # old)

\* sep.join(parts)
RECURSIVE Join(_, _)
Join(parts, sep) ==
    IF parts = <<>>
    THEN <<>>
    ELSE IF Len(parts) = 1
    THEN parts[1]
    ELSE parts[1] \o sep \o Join(Tail(parts), sep)

\* the label Label(i) as a string of pieces: brain.py line 289 puts a comma
\* and a space between the page and the chunk
LabelPieces(l) ==
    IF l = Label(1) THEN <<"doc | page 1", ",", " ", "chunk 1">>
    ELSE IF l = Label(2) THEN <<"doc | page 2", ",", " ", "chunk 1">>
    ELSE IF l = Label(3) THEN <<"doc | page 3", ",", " ", "chunk 1">>
    ELSE <<"doc | page 4", ",", " ", "chunk 1">>

\* what query_kb may return to ask_with_context: up to top_k records that
\* ingestion stored, best first
Retrievals ==
    SeqsUpTo({DictEl(t, Label(i)) : t \in {"alpha"}, i \in 1..2}, MaxTopK)

\* the "response" of Ollama's reply, brain.py line 65
ResponseTexts ==
    { <<>>,
      <<"yes">>,
      <<"yes", "\n">>,
      <<"yes", ",", " ", "no">>,
      <<"yes", "\n", SourcesUsed, " ", "notes">>,
      <<"yes", " ", SourcesNone>> }

\* the exceptions of brain.py lines 68, 71 and 74
BrainErrors == {"TimeoutException", "ConnectError", "HTTPStatusError"}

\* brain.py lines 70, 73 and 76: the string ask_brain returns for an exception
ErrorText(e) ==
    IF e = "TimeoutException"
    THEN <<"AI request timed out. The PDF may be too large. Please try a smaller file.">>
    ELSE IF e = "ConnectError"
    THEN <<"Cannot connect to Ollama. Please make sure Ollama is running.">>
    ELSE <<"AI service error:", " ", e>>

\* how the request of brain.py lines 54-63 ended
NoAnswer == [st |-> "none", text |-> <<>>, err |-> "-"]

Answered(t) == [st |-> "ok", text |-> t, err |-> "-"]

Raised(e) == [st |-> "failed", text |-> <<>>, err |-> e]

\* brain.py lines 52-76: what ask_brain returns for an outcome of its request
AskBrainReturns(o) == IF o.st = "ok" THEN o.text ELSE ErrorText(o.err)

\* brain.py lines 305-306 and 309-325: the prompt given to ask_brain
NotesPrompt(results) ==
    <<"Use ONLY the notes below to answer the question.", "NOTES:">>
    \o Join([i \in 1..Len(results) |-> <<results[i].text>>], <<"---">>)
    \o <<"QUESTION:">> \o Question
    \o <<"Give a clear answer, then list which sources you used.">>

PromptFor(results) == IF results = <<>> THEN Question ELSE NotesPrompt(results)

\* brain.py lines 307 and 327: the string ask_with_context returns
Formatted(answer, results) ==
    IF results = <<>>
    THEN answer \o <<"\n", "\n", SourcesNone>>
    ELSE answer \o <<"\n", "\n", SourcesUsed, " ">>
         \o Join([i \in 1..Len(results) |-> LabelPieces(results[i].source)],
                 <<",", " ">>)

\* rag.py line 60: [s.strip() for s in sources_str.split(",") if s.strip()]
SourcesIn(sources_str) ==
    LET parts == SplitOn(sources_str, ",")
        kept == SelectSeq(parts, LAMBDA s : StripWs(s) # <<>>)
    IN [i \in 1..Len(kept) |-> StripWs(kept[i])]

\* rag.py lines 55-62: the answer and the sources taken out of the string
Extracted(answer) ==
    IF Contains(answer, SourcesUsed)
    THEN LET parts == SplitOn(answer, SourcesUsed)
         IN [answer |-> StripWs(parts[1]),
             sources |-> SourcesIn(StripWs(parts[2]))]
    ELSE IF Contains(answer, SourcesNone)
    THEN [answer |-> StripWs(Replace(answer, SourcesNone)), sources |-> <<>>]
    ELSE [answer |-> answer, sources |-> <<>>]

AnsInit ==
    /\ apc = "idle"
    /\ aresults = <<>>
    /\ aprompts = <<>>
    /\ areply = NoAnswer
    /\ aformatted = <<>>
    /\ aanswer = <<>>
    /\ asources = <<>>
    /\ ares = "none"

\* rag.py line 52 into brain.py line 303: query_kb raises, which query_rag's
\* except of lines 66-68 turns into AIServiceError
AnswerQueryRaises ==
    /\ apc = "idle"
    /\ apc' = "done"
    /\ ares' = "AIServiceError"
    /\ UNCHANGED <<aresults, aprompts, areply, aformatted, aanswer, asources>>
    /\ UNCHANGED notAns

\* brain.py lines 303-326: query_kb returns and ask_brain is called
AnswerCall ==
    /\ apc = "idle"
    /\ \E r \in Retrievals :
          /\ aresults' = r
          /\ aprompts' = Append(aprompts, PromptFor(r))
    /\ apc' = "asking"
    /\ UNCHANGED <<areply, aformatted, aanswer, asources, ares>>
    /\ UNCHANGED notAns

\* brain.py lines 54-76 and 307, 327: the request to Ollama ends, ask_brain
\* returns and ask_with_context returns its string
BrainReturns ==
    /\ apc = "asking"
    /\ \E o \in {Answered(t) : t \in ResponseTexts} \cup {Raised(e) : e \in BrainErrors} :
          /\ areply' = o
          /\ aformatted' = Formatted(AskBrainReturns(o), aresults)
    /\ apc' = "formatted"
    /\ UNCHANGED <<aresults, aprompts, aanswer, asources, ares>>
    /\ UNCHANGED notAns

\* rag.py lines 54-65: query_rag takes the sources out and responds
QueryRagReturns ==
    /\ apc = "formatted"
    /\ aanswer' = Extracted(aformatted).answer
    /\ asources' = Extracted(aformatted).sources
    /\ ares' = "ok"
    /\ apc' = "done"
    /\ UNCHANGED <<aresults, aprompts, areply, aformatted>>
    /\ UNCHANGED notAns

AnsNext == AnswerQueryRaises \/ AnswerCall \/ BrainReturns \/ QueryRagReturns

(***************************************************************************)
(* Extractor: extract_text_from_pdf_bytes, brain.py.  The bytes are what   *)
(* PdfReader makes of them: nothing, or the pages of a document, and what  *)
(* extract_text does on a page is the page's kind.  A text is the sequence *)
(* of its characters.                                                      *)
(***************************************************************************)
ExtPages ==
    { [kind |-> "raises", text |-> <<>>],
      [kind |-> "none", text |-> <<>>],
      [kind |-> "text", text |-> <<" ">>],
      [kind |-> "text", text |-> <<"a">>],
      [kind |-> "text", text |-> <<"b", "b">>] }

Unparseable == [parses |-> FALSE, pages |-> <<>>]

PdfBytes ==
    {Unparseable} \cup {[parses |-> TRUE, pages |-> d] : d \in SeqsUpTo(ExtPages, MaxDocPages)}

\* line 157: the text put after a result cut at MAX_TEXT_SIZE
TruncationMarker == <<"\n", "\n", "[Text truncated due to size limits...]">>

\* line 145: page.extract_text() or ""
PageTextOf(pg) == IF pg.kind = "none" THEN <<>> ELSE pg.text

\* lines 143-150 with blank pages kept
PageKeptBlank(pg) == pg.kind # "raises"

\* lines 143-150: the page's text is appended to texts
PageKept(pg) == pg.kind # "raises" /\ StripWs(PageTextOf(pg)) # <<>>

\* lines 142-150: texts after the first n pages
RECURSIVE PageTexts(_, _)
PageTexts(pages, n) ==
    IF n = 0
    THEN <<>>
    ELSE IF PageKept(pages[n])
    THEN Append(PageTexts(pages, n - 1), PageTextOf(pages[n]))
    ELSE PageTexts(pages, n - 1)

\* lines 131-161
ExtractTextFromPdfBytes(b) ==
    IF ~b.parses
    THEN <<>>
    ELSE LET pages_to_process == Min(Len(b.pages), MAX_PAGES)
             joined == Join(PageTexts(b.pages, pages_to_process), <<"\n", "\n">>)
         IN IF Len(joined) > MAX_TEXT_SIZE
            THEN SubSeq(joined, 1, MAX_TEXT_SIZE) \o TruncationMarker
            ELSE joined

ExtIdle ==
    /\ epc = "idle"
    /\ ebytes = Unparseable
    /\ eresult = <<>>
    /\ eres = "none"

ExtInit ==
    /\ epc = "idle"
    /\ ebytes \in PdfBytes
    /\ eresult = <<>>
    /\ eres = "none"

\* the call: every exception inside it is caught at line 160, so it returns
ExtractCall ==
    /\ epc = "idle"
    /\ eresult' = ExtractTextFromPdfBytes(ebytes)
    /\ eres' = "returned"
    /\ epc' = "done"
    /\ UNCHANGED ebytes
    /\ UNCHANGED notExt

(***************************************************************************)
(* The chunker's specification.  The interpreter keeps running a call that *)
(* has a step to take, hence the weak fairness.                            *)
(***************************************************************************)
SplitIdle ==
    /\ text = <<>>
    /\ chunk_size = 1
    /\ overlap = 0
    /\ start = 0
    /\ chunks = <<>>
    /\ result = <<>>
    /\ pcSplit = "done"

InitSplit == SplitInit /\ KBInit /\ GenIdle /\ IngInit /\ AnsInit /\ ExtIdle /\ ChatIdle

NextSplit == SplitNext

SpecSplit == InitSplit /\ [][NextSplit]_vars /\ WF_vars(NextSplit)

(***************************************************************************)
(* The knowledge store, one call at a time (SpecKB), and with the calls of *)
(* two processes interleaved at their file operations (SpecKBConc).        *)
(***************************************************************************)
InitKB == KBInit /\ SplitIdle /\ GenIdle /\ IngInit /\ AnsInit /\ ExtIdle /\ ChatIdle

NextKB == KBStep(1)

SpecKB == InitKB /\ [][NextKB]_vars

NextKBConc == \E p \in Procs : KBStepConc(p)

SpecKBConc == InitKB /\ [][NextKBConc]_vars

(***************************************************************************)
(* The ranking of query_kb, lines 102-112, on the lists its lines 104 and  *)
(* 111 are written for: texts.json holding {"text", "source"} records.     *)
(***************************************************************************)
\* the records a list in texts.json is made of
StoredRecords == {DictEl(t, s) : t \in Texts, s \in Sources}

RankInit ==
    /\ \E xs \in SeqsUpTo(StoredRecords, MaxRecords) :
          /\ xs # <<>>
          /\ textsFile = [st |-> "full", data |-> xs, w |-> {}]
          /\ vectorsFile = [st |-> "full", data |-> Vectorize(xs), w |-> {}]
          /\ metaFile = [st |-> "full", data |-> <<Len(xs)>>, w |-> {}]
    /\ kpc = [p \in Procs |-> "idle"]
    /\ kop = [p \in Procs |-> NoOp]
    /\ kloc = [p \in Procs |-> <<>>]
    /\ kfile = [p \in Procs |-> 0]
    /\ kres = [p \in Procs |-> "none"]
    /\ kout = [p \in Procs |-> <<>>]
    /\ calls = <<>>
    /\ onlyAdds = FALSE

\* query_kb is called
RankQuery == \E q \in Texts, k \in 1..MaxTopK : QueryCall(1, q, k)

InitRank == RankInit /\ SplitIdle /\ GenIdle /\ IngInit /\ AnsInit /\ ExtIdle /\ ChatIdle

NextRank == RankQuery \/ LoadTextsExists(1) \/ LoadTextsRead(1)

SpecRank == InitRank /\ [][NextRank]_vars

(***************************************************************************)
(* Ingestion of one document into a store earlier calls have written.      *)
(***************************************************************************)
InitIng == IngInit /\ KBInit /\ SplitIdle /\ GenIdle /\ AnsInit /\ ExtIdle /\ ChatIdle

NextIng == IngNext

SpecIng == InitIng /\ [][NextIng]_vars

(***************************************************************************)
(* The generation client: one call, with the thread of the streaming       *)
(* bridge running beside it.                                               *)
(***************************************************************************)
InitGen == GenInit /\ KBInit /\ SplitIdle /\ IngInit /\ AnsInit /\ ExtIdle /\ ChatIdle

NextGen == GenNext

SpecGen == InitGen /\ [][NextGen]_vars

(***************************************************************************)
(* The answerer: one request to query_rag.                                 *)
(***************************************************************************)
InitAns == AnsInit /\ KBInit /\ SplitIdle /\ GenIdle /\ IngInit /\ ExtIdle /\ ChatIdle

NextAns == AnsNext

SpecAns == InitAns /\ [][NextAns]_vars

(***************************************************************************)
(* The extractor: one call on each document of the model.                  *)
(***************************************************************************)
InitExt == ExtInit /\ KBInit /\ SplitIdle /\ GenIdle /\ IngInit /\ AnsInit /\ ChatIdle

NextExt == ExtractCall

SpecExt == InitExt /\ [][NextExt]_vars

(***************************************************************************)
(* One regular-chat turn of the WebSocket handler, on each stream.         *)
(***************************************************************************)
InitChat ==
    ChatInit /\ KBInit /\ SplitIdle /\ GenIdle /\ IngInit /\ AnsInit /\ ExtIdle

NextChat == ChatChunk \/ ChatStreamEnds

SpecChat == InitChat /\ [][NextChat]_vars

(***************************************************************************)
(* A stream_chat call whose consumer may close the stream.  The thread of  *)
(* the bridge is scheduled whatever the coroutine does, and the response   *)
(* it iterates over ends or fails: hence the weak fairness of its steps.   *)
(* What the history holds beyond its last message plays no part in a      *)
(* close, so the histories are those of at most one message.               *)
(***************************************************************************)
InitClose == InitGen /\ callKind = "stream" /\ Len(messages) <= 1

NextClose ==
    \/ StreamCall
    \/ ProducerSend
    \/ ProducerFragment
    \/ ProducerEnd
    \/ ProducerFail
    \/ ProducerPutNone
    \/ LoopCallback
    \/ ConsumerTop
    \/ ConsumerGet
    \/ ConsumerResume
    \/ FallbackResponds
    \/ FallbackFragment
    \/ FallbackEnds
    \/ FallbackResume
    \/ ConsumerCloses

SpecClose == InitClose /\ [][NextClose]_vars /\ WF_vars(Producer)

(***************************************************************************)
(* The classification of a failed Google AI call, on every message.        *)
(***************************************************************************)
InitClassify == ExceptInit /\ KBInit /\ SplitIdle /\ IngInit /\ AnsInit /\ ExtIdle /\ ChatIdle

NextClassify == ExceptRaises

SpecClassify == InitClassify /\ [][NextClassify]_vars

(***************************************************************************)
(* The claims.                                                             *)
(***************************************************************************)
\* the chunks of the recorded add_texts_to_index calls, in call order
Added == Flatten([i \in 1..Len(calls) |-> calls[i].new])

TextsOf(xs) == [i \in 1..Len(xs) |-> xs[i].text]

\* C1: every call of split_text_to_chunks with non-empty text and
\* chunk_size > overlap >= 0 terminates.  The loop reads only text,
\* chunk_size, overlap and start, so it terminates only if no pass that stays
\* in the loop leaves start where it was: such a pass repeats for ever.
C1_SplitTerminates ==
    [][(pcSplit = "loop" /\ pcSplit' = "loop" /\ chunk_size > overlap)
          => start' # start]_vars

\* C2: once chunks were added (every add_texts_to_index call returned), a
\* query_kb call on the non-empty store returns
\* (it does not raise) and every result is a (score, chunk) pair whose chunk
\* is one of the added {text, source} records; adding {alpha, s1} to the empty
\* store and asking for 'alpha' with top_k = 1 gives one result, of source s1
\* and positive score.
C2_QueryReturnsStoredChunks ==
    [][\A p \in Procs :
          (/\ kop[p].op = "query" /\ kpc[p] # "idle" /\ kpc'[p] = "idle"
           /\ onlyAdds /\ NumTexts > 0
           /\ \A i \in 1..Len(calls) : calls[i].res = "ok")
          => /\ kres'[p] = "ok"
             /\ \A i \in 1..Len(kout'[p]) : kout'[p][i].chunk \in Range(Added)
             /\ (/\ Added = <<DictEl("alpha", "s1")>>
                 /\ kop[p].query = "alpha" /\ kop[p].top_k = 1)
                => /\ Len(kout'[p]) = 1
                   /\ kout'[p][1].chunk.source = "s1"
                   /\ kout'[p][1].score > 0]_vars

\* C3: after add_texts_to_index calls only (chunks the vectorizer finds terms
\* in), every call returned and texts.json holds the chunks of all the calls,
\* in call order, each with its text and its source.
C3_AddAppendsAll ==
    (/\ onlyAdds /\ calls # <<>>
     /\ \A p \in Procs : kpc[p] = "idle"
     /\ \A i \in 1..Len(Added) : Terms(Added[i].text) # {})
    => /\ \A i \in 1..Len(calls) : calls[i].res = "ok"
       /\ textsFile.st = "full"
       /\ textsFile.data = Added

\* the matrix on disk has one row per stored text, both files whole
RowsMatch ==
    /\ textsFile.st # "partial"
    /\ vectorsFile.st # "partial"
    /\ NumRows = NumTexts

\* C8: when add_texts_to_index, build_index_from_texts or clear_kb returns,
\* vectors.npy has as many rows as texts.json has texts.
C8_RowsMatchAfterCall ==
    [][\A p \in Procs :
          (/\ kpc[p] # "idle" /\ kpc'[p] = "idle" /\ kres'[p] = "ok"
           /\ kop[p].op \in {"add", "build", "clear"})
          => RowsMatch']_vars

\* a call that returned left a non-empty store behind
C8_Witness ==
    /\ kpc[1] = "idle" /\ kop[1].op \in {"add", "build"} /\ kres[1] = "ok"
    /\ NumTexts = MaxAdd /\ RowsMatch

\* some process is inside build_index_from_texts, called by add_texts_to_index
Rebuilding(q) ==
    /\ kop[q].op = "add"
    /\ kpc[q] \in {"save_texts_open", "save_texts_write", "save_vectors_open",
                   "save_vectors_write", "save_meta_open", "save_meta_write"}

\* texts.json and vectors.npy are whole and the matrix is the one of the texts
StoreWhole ==
    /\ textsFile.st # "partial"
    /\ vectorsFile.st # "partial"
    /\ vectorsFile.data = IndexVectors(textsFile.data)

\* C9: a query_kb call that reads the store while add_texts_to_index rebuilds
\* it finds the files whole and the matrix belonging to the texts.
C9_ReaderSeesWholeStore ==
    \A p, q \in Procs :
        (kop[p].op = "query" /\ kpc[p] = "load_read" /\ Rebuilding(q))
        => StoreWhole

\* C10: when two add_texts_to_index calls on the empty store have both
\* returned, texts.json holds the texts of both, in one of the two orders.
C10_AddsSerialized ==
    (/\ onlyAdds /\ Len(calls) = 2
     /\ \A p \in Procs : kpc[p] = "idle"
     /\ \A i \in 1..2 : calls[i].res = "ok")
    => /\ textsFile.st = "full"
       /\ TextsOf(textsFile.data) \in {TextsOf(calls[1].new \o calls[2].new),
                                      TextsOf(calls[2].new \o calls[1].new)}

\* the texts of the fragments the consumer got from the primary stream
PrimaryDelivered == SelectSeq(delivered, LAMBDA d : d.src = "primary")

PrimaryTexts == [i \in 1..Len(PrimaryDelivered) |-> PrimaryDelivered[i].text]

\* C4: in stream_chat with provider 'auto', once a fragment of the primary
\* stream was delivered, the fallback is never started and never delivers,
\* and a failure of the primary stream is raised to the consumer.
C4_NoFallbackAfterFragment ==
    (callKind = "stream" /\ provider = "auto" /\ PrimaryDelivered # <<>>)
    => /\ fallbackReqs = <<>>
       /\ FallbackDelivered = <<>>
       /\ primaryEnd = "raised" => gpc = "raised"

\* C5: in ask_brain with provider 'auto' and Google AI configured, the
\* primary is asked once; when it answers, its text is returned and the
\* fallback is not contacted; when it fails, with whatever error, the
\* fallback is asked once with the same prompt and the call ends as the
\* fallback does: with its text, or with its error.
C5_AutoAskFallsBack ==
    (callKind = "ask" /\ provider = "auto" /\ Configured /\ gpc # "call")
    => /\ primaryReqs = <<prompt>>
       /\ primaryReply.st = "none" => (gpc = "ask_primary" /\ fallbackReqs = <<>>)
       /\ primaryReply.st = "ok"
          => /\ gpc = "done" /\ gres = "ok" /\ gtext = primaryReply.text
             /\ fallbackReqs = <<>>
       /\ primaryReply.st = "failed"
          => /\ fallbackReqs = <<prompt>>
             /\ fallbackReply.st = "none" => gpc = "ask_fallback"
             /\ fallbackReply.st = "ok"
                => gpc = "done" /\ gres = "ok" /\ gtext = fallbackReply.text
             /\ fallbackReply.st = "failed"
                => /\ gpc = "raised"
                   /\ gres = IF fallbackReply.err = "ConnectError"
                             THEN "NetworkError"
                             ELSE fallbackReply.err

\* the primary failed with a rate-limit error, the fallback answered "x",
\* and ask_brain returned "x"
C5_Witness ==
    /\ callKind = "ask" /\ provider = "auto" /\ Configured
    /\ primaryReply.st = "failed" /\ primaryReply.err = {"429"}
    /\ fallbackReply = Replied("x")
    /\ gpc = "done" /\ gtext = "x"

\* C6: with provider 'google' or 'ollama', in ask_brain and in stream_chat,
\* only the named backend is contacted; with the package missing or the key
\* unset, 'google' raises ValueError and contacts no backend; and once the
\* named backend has failed and the call is over, the call has raised.
C6_ExplicitOnlyNamed ==
    (provider \in {"google", "ollama"})
    => /\ provider = "google" => fallbackReqs = <<>>
       /\ provider = "ollama" => (primaryReqs = <<>> /\ ppc = "idle")
       /\ (provider = "google" /\ (~googleAvailable \/ ~googleKey) /\ gpc # "call")
          => /\ gpc = "raised" /\ gres = "ValueError"
             /\ primaryReqs = <<>> /\ ppc = "idle"
       /\ (provider = "google" /\ primaryReply.st = "failed"
           /\ gpc \in {"done", "raised"})
          => (gpc = "raised" /\ gres = Classify(primaryReply.err))
       /\ (provider = "ollama" /\ fallbackReply.st = "failed")
          => (gpc = "raised" /\ gres # "ok")

\* C7: when the primary stream is over for the consumer: if it raised, the
\* consumer got before that all the fragments the backend produced, in order,
\* once each; if the backend failed, it did raise; and if the backend
\* completed, the consumer got the backend's non-empty fragments.
C7_BridgeDeliversAll ==
    (callKind = "stream" /\ primaryEnd # "none" /\ LastUserMessage(messages) # 0)
    => /\ primaryEnd = "raised" => PrimaryTexts = produced
       /\ primaryReply.st = "failed" => primaryEnd = "raised"
       /\ (primaryEnd = "returned" /\ primaryReply.st = "ok")
          => PrimaryTexts = produced

\* what the call of p is about to return, seen from the step that ends it
QueryReturns(p) == kop[p].op = "query" /\ kpc[p] # "idle" /\ kpc'[p] = "idle"

\* rs is a ranking of xs for query q: each result the score and the chunk of
\* a position of xs, no position twice, scores non-increasing, and no
\* position left out scores higher than one that is in
IsRanking(rs, xs, q) ==
    \E f \in [1..Len(rs) -> 1..Len(xs)] :
        /\ \A i, j \in 1..Len(rs) : i # j => f[i] # f[j]
        /\ \A j \in 1..Len(rs) :
              rs[j] = [score |-> Sim(q, xs[f[j]]), chunk |-> xs[f[j]]]
        /\ \A j \in 1..Len(rs) - 1 : rs[j].score >= rs[j + 1].score
        /\ \A i \in 1..Len(xs) : \A j \in 1..Len(rs) :
              (\A l \in 1..Len(rs) : f[l] # i) => Sim(q, xs[i]) <= rs[j].score

\* C11: a query_kb call on a store of n >= 1 chunks (with a word of two
\* letters or more among them) returns min(top_k, n) results, each a stored
\* chunk with its score, no chunk twice, scores non-increasing, and no chunk
\* left out scoring higher than a returned one.
C11_QueryReturnsTopK ==
    [][\A p \in Procs :
          (QueryReturns(p) /\ NumTexts >= 1 /\ Vocabulary(textsFile.data) # {})
          => /\ kres'[p] = "ok"
             /\ Len(kout'[p]) = Min(kop[p].top_k, NumTexts)
             /\ IsRanking(kout'[p], textsFile.data, kop[p].query)]_vars

\* the positions of xs by descending score, the lower position first among
\* equal scores
RECURSIVE ByScoreThenInsertion(_, _)
ByScoreThenInsertion(sims, left) ==
    IF left = {}
    THEN <<>>
    ELSE LET i == CHOOSE j \in left :
                    \A k \in left : sims[k] < sims[j] \/ (sims[k] = sims[j] /\ k >= j)
         IN  <<i>> \o ByScoreThenInsertion(sims, left \ {i})

C13_QueryEmptyStore ==
    [][\A p \in Procs :
          (QueryReturns(p) /\ textsFile.st \in {"absent", "full"} /\ NumTexts = 0)
          => (kres'[p] = "ok" /\ kout'[p] = <<>>)]_vars

\* a query returned from the store that holds the empty list
C13_Witness ==
    /\ kop[1].op = "query" /\ kpc[1] = "idle" /\ kres[1] = "ok" /\ kout[1] = <<>>
    /\ textsFile.st = "full" /\ textsFile.data = <<>>

\* none of the three files is there
StoreGone ==
    /\ textsFile.st = "absent"
    /\ vectorsFile.st = "absent"
    /\ metaFile.st = "absent"

\* C14: a clear_kb call, from whatever store (the one a clear_kb call left
\* included), returns without raising and leaves none of the three files;
\* and a query_kb call on what it left returns the empty list.
C14_ClearIdempotent ==
    [][\A p \in Procs :
          /\ (kop[p].op = "clear" /\ kpc[p] # "idle" /\ kpc'[p] = "idle")
             => (kres'[p] = "ok" /\ StoreGone')
          /\ (QueryReturns(p) /\ StoreGone)
             => (kres'[p] = "ok" /\ kout'[p] = <<>>)]_vars

\* a clear_kb call has gone through a store with no file and returned
C14_Witness ==
    /\ kop[1].op = "clear" /\ kpc[1] = "idle" /\ kres[1] = "ok"
    /\ StoreGone

\* the pages of the document extract_text gave a text for
GoodPages == SelectSeq(idoc, LAMBDA pg : pg.kind = "text")

\* C15: index_pdf_bytes_to_kb on a document some pages of which fail
\* extraction (the others giving short texts, with a word among them, or
\* blank ones), whatever texts with words the store held before: it raises
\* nothing, returns
\* the number of chunks of the pages that gave a text, and the store then
\* holds what it held before followed by the texts of those chunks.
C15_IngestSkipsFailedPages ==
    (/\ ipc = "done"
     /\ \A i \in 1..Len(iprior) : Terms(iprior[i]) # {}
     /\ \A i \in 1..Len(idoc) : idoc[i].kind # "long"
     /\ \E i \in 1..Len(idoc) : idoc[i].kind = "raises"
     /\ \E i \in 1..Len(idoc) : idoc[i].kind = "text" /\ Terms(idoc[i].text) # {})
    => /\ ires = "ok"
       /\ icount = Len(GoodPages)
       /\ StoredTexts = iprior \o [i \in 1..Len(GoodPages) |-> GoodPages[i].text]

\* the position of the most recent user turn of ms, 0 when there is none
MostRecentUser(ms) ==
    IF \E i \in 1..Len(ms) : ms[i].role = "user"
    THEN CHOOSE i \in 1..Len(ms) :
            /\ ms[i].role = "user"
            /\ \A j \in (i + 1)..Len(ms) : ms[j].role # "user"
    ELSE 0

\* the turns before position k as conversation history, assistant as model
TurnsBefore(ms, k) ==
    [i \in 1..(k - 1) |->
        [role |-> IF ms[i].role = "assistant" THEN "model" ELSE ms[i].role,
         parts |-> <<ms[i].content>>]]

\* C16: when _stream_google_ai has run on messages with a user turn among
\* them, one request was made of Google AI: the most recent user turn as the
\* message streamed, the turns before it as the history.
C16_SubmitsMostRecentUserTurn ==
    (callKind = "stream" /\ primaryEnd # "none" /\ MostRecentUser(messages) # 0)
    => primaryReqs =
          <<[history |-> TurnsBefore(messages, MostRecentUser(messages)),
             message |-> messages[MostRecentUser(messages)].content]>>

\* the response text holds neither marker phrase and no whitespace at its ends
PlainResponse ==
    /\ areply.st = "ok"
    /\ ~Contains(areply.text, SourcesUsed)
    /\ ~Contains(areply.text, SourcesNone)
    /\ StripWs(areply.text) = areply.text

C18_NoResultsRawQuestion ==
    (apc # "idle" /\ ares # "AIServiceError" /\ aresults = <<>>)
        => /\ aprompts = <<Question>>
           /\ (apc = "done" /\ areply.st = "ok")
                 => /\ asources = <<>>
                    /\ aanswer = StripWs(areply.text)

\* C19: when the backend call of a request to the answerer fails, the request
\* ends in an error and not in a normal answer
C19_FailedBackendIsError ==
    (apc = "done" /\ areply.st = "failed") => ares # "ok"

\* the pages whose extraction gives a non-blank text, in page order
NonBlank(pages) ==
    SelectSeq(pages, LAMBDA pg :
        pg.kind = "text" /\ \E i \in 1..Len(pg.text) : pg.text[i] \notin Whitespace)

\* their texts joined by a blank line
JoinedTexts(pages) ==
    Join([i \in 1..Len(NonBlank(pages)) |-> NonBlank(pages)[i].text], <<"\n", "\n">>)

\* C20 as stated: the call never raises, bytes that do not parse give the
\* empty string, and otherwise the result is the non-blank texts of the pages
\* whose extraction did not fail, in page order, joined by a blank line
C20_ExtractAllPages ==
    epc = "done"
        => /\ eres = "returned"
           /\ ~ebytes.parses => eresult = <<>>
           /\ ebytes.parses => eresult = JoinedTexts(ebytes.pages)

\* C20: the call never raises, bytes that do not parse give the empty string,
\* and otherwise the result is the non-blank texts of those of the first
\* MAX_PAGES pages whose extraction did not fail, in page order, joined by a
\* blank line, and cut to MAX_TEXT_SIZE characters followed by the truncation
\* marker when longer than that
C20_ExtractWithinLimits ==
    epc = "done"
        => /\ eres = "returned"
           /\ ~ebytes.parses => eresult = <<>>
           /\ ebytes.parses =>
                 LET first == SubSeq(ebytes.pages, 1, Min(Len(ebytes.pages), MAX_PAGES))
                     whole == JoinedTexts(first)
                 IN /\ Len(whole) <= MAX_TEXT_SIZE => eresult = whole
                    /\ Len(whole) > MAX_TEXT_SIZE =>
                          eresult = SubSeq(whole, 1, MAX_TEXT_SIZE) \o TruncationMarker

C20_Witness ==
    /\ epc = "done"
    /\ ebytes.parses
    /\ Len(ebytes.pages) > MAX_PAGES
    /\ ebytes.pages[1].kind = "raises"
    /\ eresult = <<"a", "\n", "\n", "b">> \o TruncationMarker

\* the windows text[k*s : k*s + chunk_size] with s = chunk_size - overlap, for
\* k = 0, 1, ... while k*s < len(text), each trimmed, the empty ones dropped
Windows(t, cs, ov) ==
    LET s == cs - ov
        n == (Len(t) + s - 1) \div s
        w == [k \in 1..n |-> Strip(PySlice(t, (k - 1) * s, (k - 1) * s + cs))]
    IN SelectSeq(w, LAMBDA c : c # <<>>)

IsPrefix(xs, ys) == Len(xs) <= Len(ys) /\ xs = SubSeq(ys, 1, Len(xs))

\* C21: for len(text) > chunk_size > overlap >= 0 the chunks emitted so far
\* are the first of the windows text[k*s : k*s + chunk_size], in order, no
\* window twice, and the returned list is all of them
C21_ChunksAreWindows ==
    (pcSplit \in {"loop", "done"} /\ Len(text) > chunk_size /\ chunk_size > overlap)
        => /\ IsPrefix(chunks, Windows(text, chunk_size, overlap))
           /\ pcSplit = "done" => result = Windows(text, chunk_size, overlap)

C23_ShortTextOneChunk ==
    [][(pcSplit = "call" /\ pcSplit' # "call")
          => /\ text = <<>> => (pcSplit' = "done" /\ result' = <<>>)
             /\ (text # <<>> /\ Len(text) <= chunk_size)
                   => (pcSplit' = "done" /\ result' = <<text>>)]_vars

\* C23: the empty text gives the empty list; a non-empty text of at most
\* chunk_size characters and at most MAX_TEXT_SIZE characters gives the one
\* chunk equal to the text; a text of at most chunk_size characters above
\* MAX_TEXT_SIZE gives the one chunk of its first MAX_TEXT_SIZE characters
C23_ShortTextOneChunkCut ==
    [][(pcSplit = "call" /\ pcSplit' # "call")
          => /\ text = <<>> => (pcSplit' = "done" /\ result' = <<>>)
             /\ (text # <<>> /\ Len(text) <= chunk_size /\ Len(text) <= MaxTextSize)
                   => (pcSplit' = "done" /\ result' = <<text>>)
             /\ (Len(text) <= chunk_size /\ Len(text) > MaxTextSize)
                   => (pcSplit' = "done" /\ result' = <<SubSeq(text, 1, MaxTextSize)>>)]_vars

C23_Witness ==
    /\ pcSplit = "done"
    /\ chunk_size > MaxTextSize
    /\ Len(result) = 1
    /\ Len(result[1]) = MaxTextSize

\* C26: with overlap >= chunk_size the loop takes no pass that stays in the
\* loop without moving start forward
C26_OverlapGuard ==
    [][(pcSplit = "loop" /\ pcSplit' = "loop" /\ overlap >= chunk_size)
          => start' > start]_vars

\* C27: no chunk of the returned list is empty or whitespace only
C27_NoBlankChunk ==
    pcSplit = "done" => \A i \in 1..Len(result) : Strip(result[i]) # <<>>

\* the kind the rules of the claim give a message
KindOf(m) ==
    CASE ("429" \in m \/ "rate limit" \in m \/ "quota" \in m)
            /\ ("daily" \in m \/ "quota exceeded" \in m) -> "QuotaExceededError"
      [] ("429" \in m \/ "rate limit" \in m \/ "quota" \in m)
            /\ ~("daily" \in m \/ "quota exceeded" \in m) -> "RateLimitError"
      [] ~("429" \in m \/ "rate limit" \in m \/ "quota" \in m)
            /\ ("network" \in m \/ "connection" \in m \/ "timeout" \in m) -> "NetworkError"
      [] OTHER -> "OriginalError"

\* C25: on the single-shot and on the streaming path alike, the except clause
\* raises for every message the one kind the rules give it: quota exceeded
\* or rate limit for a message with a rate limit mark, network for one with
\* only a network mark, the original error otherwise
C25_ClassificationTotal ==
    (gpc = "raised" /\ primaryReply.st = "failed")
        => gres = KindOf(primaryReply.err)

C25_Witness ==
    /\ gpc = "raised"
    /\ callKind = "stream"
    /\ primaryReply.err = {"quota", "timeout"}
    /\ gres = "RateLimitError"

\* C24: a stream_chat call in auto mode that has ended: when Google AI is not
\* configured, or failed with no fragment delivered, Ollama was asked once,
\* the consumer got Ollama's fragments and nothing else, and the call ended
\* as Ollama's stream did; when Google AI's stream ended well, Ollama was
\* never asked
C24_AutoStreamFallsBack ==
    (callKind = "stream" /\ provider = "auto" /\ gpc \in {"done", "raised"})
        => /\ (~Configured \/ (primaryReply.st = "failed" /\ PrimaryDelivered = <<>>))
                 => /\ fallbackReqs = <<messages>>
                    /\ delivered = FallbackDelivered
                    /\ fallbackReply.st # "none"
                    /\ gres = IF fallbackReply.st = "ok"
                              THEN "ok"
                              ELSE OllamaRaises(fallbackReply.err)
           /\ primaryReply.st = "ok" => fallbackReqs = <<>>

\* C28: wherever the consumer closes the stream the close goes through at
\* once, whatever the thread is doing; after it nothing more is delivered and
\* no backend is asked; and the thread, once started, finishes
C28_CloseReleasesStream ==
    /\ [](Closable => ENABLED ConsumerCloses)
    /\ [][gpc = "closed" => (/\ gpc' = "closed"
                             /\ delivered' = delivered
                             /\ fallbackReqs' = fallbackReqs)]_vars
    /\ (gpc = "closed" /\ ppc # "idle") ~> (ppc = "finished")

C28_Witness ==
    /\ gpc = "closed"
    /\ ppc = "finished"
    /\ Len(produced) = 2
    /\ Len(PrimaryDelivered) = 1

\* the events of one type, in the order they were sent
EventsOf(t) == SelectSeq(wevents, LAMBDA e : e.type = t)

\* C29: the chunk events sent are the fragments pulled from the stream, in
\* stream order; and when the stream raised, the turn ends with an error
\* event, without a complete event, and without an assistant message stored
C29_StreamErrorIsErrorEvent ==
    /\ EventsOf("chunk") = [i \in 1..wpos |-> Event("chunk", <<wstream.frags[i]>>)]
    /\ (wpc = "done" /\ wstream.end # "ok")
          => /\ EventsOf("error") # <<>>
             /\ EventsOf("complete") = <<>>
             /\ wstored = <<>>

\* the add_texts_to_index call of p ends by raising
AddRaises(p) ==
    /\ kop[p].op = "add"
    /\ kpc[p] # "idle"
    /\ kpc'[p] = "idle"
    /\ kres'[p] # "ok"

\* C30: an add_texts_to_index call that raises leaves texts.json and
\* vectors.npy as they were when it was made: texts.json holds none of the
\* chunks of the call (kloc is the loaded list with them appended) and the
\* matrix has a row for every text if it had before
C30_FailedAddLeavesStore ==
    [][\A p \in Procs :
          (AddRaises(p) /\ kloc[p] # <<>>)
             => /\ NumTexts' = Len(kloc[p]) - Len(kop[p].new)
                /\ NumRows = Len(kloc[p]) - Len(kop[p].new) => NumRows' = NumTexts']_vars

====
